---- MODULE Spec2Model ----
(***************************************************************************)
(* A model of the Vypr compiler pipeline (d-quint/VYPR): the indentation   *)
(* aware lexer, the recursive-descent parser, the scope-and-use semantic   *)
(* analyzer, the IR generator and the program-counter dispatch loop that   *)
(* the code emitter writes for each IR function.                           *)
(*                                                                         *)
(* Each component is one record-valued variable whose fields are the       *)
(* fields of the C++ object.  Every component has its own specification    *)
(* (SpecLex, SpecParse, ...) whose Init draws the component's input from a *)
(* bounded set and whose actions are the component's public steps.         *)
(***************************************************************************)
EXTENDS Integers, Sequences, FiniteSets, TLC

VARIABLES
    lexer,      \* the Lexer object (src/include/lexer.h:20-28)
    lexOut,     \* Lexer::tokenize's local vector and how the call ended
    parser,     \* the Parser object: tokens, current (src/include/parser.h)
    parseOut,   \* Parser::program's local vector and how the call ended
    analyzer,   \* the SemanticAnalyzer object: current_scope chain, in_function
    semOut,     \* SemanticAnalyzer::analyze: its program, its place in it, how it ended
    irgen,      \* the IRGenerator object (src/include/ir_generator.h:88-91) and its heap
    irOut,      \* IRGenerator::generate: its program, its place in it, what it returned
    script,     \* CodeGenerator::generate: the functions written so far, how it ended
    exec        \* the host interpreter running __main__ of the emitted script

vars == <<lexer, lexOut, parser, parseOut, analyzer, semOut, irgen, irOut, script, exec>>
lexVars == <<lexer, lexOut>>
parseVars == <<parser, parseOut>>
semVars == <<analyzer, semOut>>
irVars == <<irgen, irOut, script, exec>>

(***************************************************************************)
(* Generic helpers                                                         *)
(***************************************************************************)
RECURSIVE Concat(_)
Concat(ss) == IF ss = <<>> THEN <<>> ELSE Head(ss) \o Concat(Tail(ss))

RECURSIVE CountOf(_, _)
CountOf(s, x) ==
    IF s = <<>> THEN 0
    ELSE (IF Head(s) = x THEN 1 ELSE 0) + CountOf(Tail(s), x)

SeqsUpTo(S, n) == UNION { [1..k -> S] : k \in 0..n }

Last(s) == s[Len(s)]
Front(s) == SubSeq(s, 1, Len(s) - 1)

(***************************************************************************)
(* LEXER  (src/src/lexer.cpp)                                              *)
(* Characters are one-symbol strings: " " is a space, "\t" a tab, "\n" a *)
(* line feed; NUL is the '\0' that current_char holds at end of source.    *)
(* Line and column tags are not modelled.                                  *)
(***************************************************************************)
NUL == "NUL"

Tok(type, value) == [type |-> type, value |-> value]

\* current_char: the lexer keeps it equal to source[position], '\0' at the end.
current_char(L) ==
    IF L.position < Len(L.source) THEN L.source[L.position + 1] ELSE NUL

peek(L) ==
    IF L.position + 1 >= Len(L.source) THEN NUL ELSE L.source[L.position + 2]

advance(L) ==
    IF L.position < Len(L.source) THEN [L EXCEPT !.position = @ + 1] ELSE L

isspace(c) == c \in {" ", "\t", "\n"}
Letters ==
    {"a", "b", "c", "d", "e", "f", "h", "i", "l", "m", "n", "o", "p", "r", "s",
     "t", "u", "v", "w", "x", "y"}
Digits == {"0", "1", "2", "3", "4", "5", "6", "7", "8", "9"}
is_alpha(c) == c \in Letters \/ c = "_"
is_digit(c) == c \in Digits
is_alphanumeric(c) == is_alpha(c) \/ is_digit(c)

\* Lexer::keywords: the token type of a reserved word, "" for any other text.
keywords(text) ==
    CASE text = "var" -> "VAR"
      [] text = "func" -> "FUNC"
      [] text = "return" -> "RETURN"
      [] text = "if" -> "IF"
      [] text = "else" -> "ELSE"
      [] text = "while" -> "WHILE"
      [] text = "loop" -> "LOOP"
      [] text = "in" -> "IN"
      [] text = "times" -> "TIMES"
      [] text = "print" -> "PRINT"
      [] text = "input" -> "INPUT"
      [] text = "true" -> "BOOLEAN"
      [] text = "false" -> "BOOLEAN"
      [] OTHER -> ""

NewLexer(source) ==
    [source |-> source, position |-> 0, current_indent |-> 0,
     indent_stack |-> <<0>>, at_line_start |-> TRUE, token_queue |-> <<>>]

RECURSIVE skip_whitespace(_)
skip_whitespace(L) ==
    IF isspace(current_char(L)) /\ current_char(L) # "\n"
    THEN skip_whitespace(advance(L))
    ELSE L

\* while (current_char != '\n' && current_char != '\0') advance();
RECURSIVE skip_comment(_)
skip_comment(L) ==
    IF current_char(L) # "\n" /\ current_char(L) # NUL
    THEN skip_comment(advance(L))
    ELSE L

\* A lexer that skips no blank or comment-only line.
skip_empty_lines_none(L) == L

\* The loop of handle_newline that skips blank and comment-only lines.
RECURSIVE skip_empty_lines(_)
skip_empty_lines(L) ==
    IF current_char(L) = NUL THEN L
    ELSE LET start_pos == L.position
             W == skip_whitespace(L)
         IN  IF current_char(W) = "/" /\ peek(W) = "/"
             THEN LET C == skip_comment(W)
                  IN  IF current_char(C) = "\n"
                      THEN skip_empty_lines(advance(C))
                      ELSE C
             ELSE IF current_char(W) = "\n"
             THEN skip_empty_lines(advance(W))
             ELSE [W EXCEPT !.position = start_pos]

RECURSIVE count_spaces(_, _)
count_spaces(L, n) ==
    IF current_char(L) = " " THEN count_spaces(advance(L), n + 1)
    ELSE [lexer |-> L, level |-> n]

RECURSIVE count_tabs(_, _)
count_tabs(L, n) ==
    IF current_char(L) = "\t" THEN count_tabs(advance(L), n + 4)
    ELSE [lexer |-> L, level |-> n]

count_indent(L) ==
    LET s == count_spaces(L, 0) IN count_tabs(s.lexer, s.level)

\* A pop loop that closes one level only.
pop_indents_once(L, indent_level) ==
    [L EXCEPT !.indent_stack = Front(@), !.token_queue = Append(@, Tok("DEDENT", ""))]

\* The pop loop of process_indent: one DEDENT per level above indent_level.
RECURSIVE pop_indents(_, _)
pop_indents(L, indent_level) ==
    IF L.indent_stack # <<>> /\ Last(L.indent_stack) > indent_level
    THEN pop_indents([L EXCEPT !.indent_stack = Front(@),
                               !.token_queue = Append(@, Tok("DEDENT", ""))],
                     indent_level)
    ELSE L

process_indent(L0, indent_level) ==
    LET prev_indent == Last(L0.indent_stack)
        L == [L0 EXCEPT !.current_indent = indent_level]
    IN  IF indent_level > prev_indent
        THEN [lexer |-> [L EXCEPT !.indent_stack = Append(@, indent_level),
                                  !.token_queue = Append(@, Tok("INDENT", ""))],
              error |-> "none"]
        ELSE IF indent_level < prev_indent
        THEN LET P == pop_indents(L, indent_level)
             IN  IF P.indent_stack = <<>> \/ Last(P.indent_stack) # indent_level
                 THEN [lexer |-> P, error |-> "LexerError"]
                 ELSE [lexer |-> P, error |-> "none"]
        ELSE [lexer |-> L, error |-> "none"]

handle_newline(L0) ==
    LET L1 == IF current_char(L0) = "\n" THEN advance(L0) ELSE L0
        L2 == skip_empty_lines(L1)
    IN  IF current_char(L2) # NUL
        THEN LET c == count_indent(L2) IN process_indent(c.lexer, c.level)
        ELSE [lexer |-> L2, error |-> "none"]

RECURSIVE read_identifier(_, _)
read_identifier(L, acc) ==
    IF is_alphanumeric(current_char(L))
    THEN read_identifier(advance(L), acc \o current_char(L))
    ELSE [lexer |-> L, text |-> acc]

handle_identifier(L) ==
    LET r == read_identifier(L, "")
    IN  [lexer |-> r.lexer, error |-> "none",
         token |-> IF keywords(r.text) = "BOOLEAN" THEN Tok("BOOLEAN", r.text)
                   ELSE IF keywords(r.text) # "" THEN Tok(keywords(r.text), "")
                   ELSE Tok("IDENTIFIER", r.text)]

DigitValue(c) ==
    CASE c = "0" -> 0 [] c = "1" -> 1 [] c = "2" -> 2 [] c = "3" -> 3
      [] c = "4" -> 4 [] c = "5" -> 5 [] c = "6" -> 6 [] c = "7" -> 7
      [] c = "8" -> 8 [] c = "9" -> 9

\* The digits (and at most one '.') of a number; n is std::stoi of the digits
\* read so far.
RECURSIVE read_number(_, _, _, _)
read_number(L, acc, n, is_float) ==
    IF is_digit(current_char(L)) \/ current_char(L) = "."
    THEN IF current_char(L) = "." /\ is_float
         THEN [lexer |-> L, text |-> acc, n |-> n, is_float |-> is_float,
               error |-> "runtime_error"]
         ELSE read_number(advance(L), acc \o current_char(L),
                          IF is_digit(current_char(L)) /\ ~is_float
                          THEN 10 * n + DigitValue(current_char(L)) ELSE n,
                          is_float \/ current_char(L) = ".")
    ELSE [lexer |-> L, text |-> acc, n |-> n, is_float |-> is_float, error |-> "none"]

\* An INTEGER token holds the int std::stoi returns, written here as its
\* decimal numeral (what std::to_string gives back for it); a FLOAT token
\* holds the text read.
handle_number(L) ==
    LET r == read_number(L, "", 0, FALSE)
    IN  [lexer |-> r.lexer, error |-> r.error,
         token |-> IF r.is_float THEN Tok("FLOAT", r.text)
                   ELSE Tok("INTEGER", ToString(r.n))]

\* The body of a string up to the closing quote; backslash-quote is the quote.
RECURSIVE read_string(_, _, _)
read_string(L, quote, acc) ==
    IF current_char(L) # NUL /\ current_char(L) # quote
    THEN IF current_char(L) = "\\" /\ peek(L) = quote
         THEN read_string(advance(advance(L)), quote, acc \o quote)
         ELSE read_string(advance(L), quote, acc \o current_char(L))
    ELSE [lexer |-> L, text |-> acc]

handle_string(L) ==
    LET quote == current_char(L)
        r == read_string(advance(L), quote, "")
    IN  IF current_char(r.lexer) # quote
        THEN [lexer |-> r.lexer, error |-> "runtime_error", token |-> Tok("UNKNOWN", "")]
        ELSE [lexer |-> skip_whitespace(advance(r.lexer)), error |-> "none",
              token |-> Tok("STRING", r.text)]

\* One- and two-character operators; '&' and '|' alone, and any other
\* character, raise std::runtime_error.
handle_operator(L) ==
    LET c == current_char(L)
        A == advance(L)
        one(t) == [lexer |-> A, error |-> "none", token |-> Tok(t, "")]
        two(c2, t2, t1) ==
            IF current_char(A) = c2
            THEN [lexer |-> advance(A), error |-> "none", token |-> Tok(t2, "")]
            ELSE IF t1 = "" THEN [lexer |-> A, error |-> "runtime_error",
                                  token |-> Tok("UNKNOWN", "")]
                 ELSE [lexer |-> A, error |-> "none", token |-> Tok(t1, "")]
    IN  CASE c = "+" -> one("PLUS")
          [] c = "-" -> one("MINUS")
          [] c = "*" -> one("MULTIPLY")
          [] c = "/" -> one("DIVIDE")
          [] c = "^" -> one("CONCAT")
          [] c = "=" -> two("=", "EQUAL", "ASSIGN")
          [] c = "!" -> two("=", "NOT_EQUAL", "NOT")
          [] c = ">" -> two("=", "GREATER_EQUAL", "GREATER")
          [] c = "<" -> two("=", "LESS_EQUAL", "LESS")
          [] c = "&" -> two("&", "AND", "")
          [] c = "|" -> two("|", "OR", "")
          [] c = "(" -> one("LPAREN")
          [] c = ")" -> one("RPAREN")
          [] c = "[" -> one("LBRACKET")
          [] c = "]" -> one("RBRACKET")
          [] c = ":" -> one("COLON")
          [] c = "," -> one("COMMA")
          [] c = "." -> one("DOT")
          [] OTHER -> [lexer |-> A, error |-> "runtime_error",
                       token |-> Tok("UNKNOWN", "")]

pop_queue(L) ==
    [lexer |-> [L EXCEPT !.token_queue = Tail(@)], error |-> "none",
     token |-> Head(L.token_queue)]

\* A lexer that forgets the pending levels at end of file.
eof_dedents_none(L) == L

\* End of file: one DEDENT for every level above 0 on the stack.
RECURSIVE eof_dedents(_)
eof_dedents(L) ==
    IF Len(L.indent_stack) > 1
    THEN eof_dedents([L EXCEPT !.indent_stack = Front(@),
                               !.token_queue = Append(@, Tok("DEDENT", ""))])
    ELSE L

at_eof(L0) ==
    LET L == eof_dedents(L0)
    IN  IF L.token_queue # <<>> THEN pop_queue(L)
        ELSE [lexer |-> L, error |-> "none", token |-> Tok("EOF", "")]

\* The while (current_char != '\0') loop of next_token.
RECURSIVE scan(_)
scan(L) ==
    LET c == current_char(L)
    IN  IF c = NUL THEN at_eof(L)
        ELSE IF L.at_line_start
        THEN LET h == handle_newline(L)
                 H == [h.lexer EXCEPT !.at_line_start = FALSE]
             IN  IF h.error # "none"
                 THEN [lexer |-> h.lexer, error |-> h.error, token |-> Tok("UNKNOWN", "")]
                 ELSE IF H.token_queue # <<>> THEN pop_queue(H)
                 ELSE scan(H)
        ELSE IF isspace(c) /\ c # "\n" THEN scan(skip_whitespace(L))
        ELSE IF c = "\n"
        THEN [lexer |-> [advance(L) EXCEPT !.at_line_start = TRUE],
              error |-> "none", token |-> Tok("NEWLINE", "")]
        ELSE IF c = "/" /\ peek(L) = "/" THEN scan(skip_comment(L))
        ELSE IF is_alpha(c) \/ c = "_" THEN handle_identifier(L)
        ELSE IF is_digit(c) THEN handle_number(L)
        ELSE IF c = "\"" \/ c = "'" THEN handle_string(L)
        ELSE handle_operator(L)

next_token(L) ==
    IF L.token_queue # <<>> THEN pop_queue(L) ELSE scan(L)

(***************************************************************************)
(* Lexer inputs: sources of at most MaxLines lines.  A line is a run of    *)
(* leading blanks, a body and a line feed (the last line may lack it).     *)
(***************************************************************************)
MaxLines == 3

LineIndents == { <<>>, <<" ">>, <<" ", " ">>, <<"\t">>, <<"\t", " ">>, <<" ", "\t">> }
LineBodies == { <<>>, <<"a">>, <<"/", "/">>, <<"&">> }
Lines == { i \o b : i \in LineIndents, b \in LineBodies }

Sources(maxLines) ==
    { Concat([k \in 1..Len(ls) |->
                 IF k < Len(ls) \/ nl THEN Append(ls[k], "\n") ELSE ls[k]])
        : ls \in SeqsUpTo(Lines, maxLines), nl \in BOOLEAN }

\* Value-level sequencing: e is evaluated once and Body is applied to it.
Bind(e, Body(_)) == CHOOSE v \in { Body(r) : r \in {e} } : TRUE

\* A call that may throw (or abort): when r is not ok it propagates,
\* otherwise the method goes on with r.
Then(r, K(_)) == Bind(r, LAMBDA v : IF v.ok THEN K(v) ELSE v)

(***************************************************************************)
(* IR data structures (src/include/ir_generator.h) and the storage of the  *)
(* generator's std::vector<IRFunction>.                                    *)
(*                                                                         *)
(* IRGenerator keeps IRFunction* currentFunction, a pointer into the       *)
(* vector's buffer, so the buffer is part of the state: heap[b] is what    *)
(* the storage of buffer b holds, functions names the buffer the vector    *)
(* owns now and its capacity, and a pointer is a buffer and an index into  *)
(* it.  A push_back at full capacity moves the elements to a new buffer    *)
(* and frees the old one; a pointer into a freed buffer dangles.           *)
(***************************************************************************)
IRInstruction(opcode, operands) == [opcode |-> opcode, operands |-> operands]

IRFunction(name, params) ==
    [name |-> name, parameters |-> params, instructions |-> <<>>, labelCounter |-> 0]

\* What using a dangling currentFunction does is undefined, and so is how far
\* the vector grows.  A build fixes both: the growth factor of its standard
\* library (2 or 1.5), and whether a write through the dangling pointer lands
\* in the freed storage and is lost to the vector, or aborts the compiler.
Builds == [growth : {"double", "half"}, stale : {"lost", "crash"}]

\* The capacity a full vector of the given capacity grows to.
grow(build, capacity) ==
    IF capacity = 0 THEN 1
    ELSE IF build.growth = "double" THEN 2 * capacity
    ELSE IF capacity \div 2 = 0 THEN capacity + 1
    ELSE capacity + capacity \div 2

\* An IRFunction after its string and vectors were moved out of it; the int
\* stays.
moved_from(f) == [f EXCEPT !.name = "", !.parameters = <<>>, !.instructions = <<>>]

vector_size(G) == IF G.functions.buffer = 0 THEN 0 ELSE Len(G.heap[G.functions.buffer])

\* functions.push_back(f)
push_back(G, f) ==
    LET b == G.functions.buffer
    IN  IF vector_size(G) < G.functions.capacity
        THEN [G EXCEPT !.heap[b] = Append(@, f)]
        ELSE LET old == IF b = 0 THEN <<>> ELSE G.heap[b]
                 freed == [c \in DOMAIN G.heap |->
                             IF c = b THEN [i \in DOMAIN old |-> moved_from(old[i])]
                             ELSE G.heap[c]]
             IN  [G EXCEPT !.heap = Append(freed, Append(old, f)),
                           !.functions = [buffer |-> Len(G.heap) + 1,
                                          capacity |-> grow(G.build, G.functions.capacity)]]

\* &functions.back()
back(G) == [buffer |-> G.functions.buffer, index |-> vector_size(G)]

dangling(G) == G.currentFunction.buffer # G.functions.buffer

\* IRGenerator::IRGenerator()
NewIRGenerator(build) ==
    Bind(push_back([heap |-> <<>>, functions |-> [buffer |-> 0, capacity |-> 0],
                    currentFunction |-> [buffer |-> 0, index |-> 0],
                    variables |-> {}, tempCounter |-> 0, build |-> build,
                    result |-> "", ok |-> TRUE],
                   IRFunction("__main__", <<>>)),
         LAMBDA G : [G EXCEPT !.currentFunction = back(G)])

IRGeneratorFields == {"heap", "functions", "currentFunction", "variables", "tempCounter", "build"}

\* The fields of the object, without the result and ok of a call in progress.
Object(G) == [f \in IRGeneratorFields |-> G[f]]

\* A component that a specification does not run stays as constructed on
\* the empty input.
IdleLex ==
    /\ lexer = NewLexer(<<>>)
    /\ lexOut = [tokens |-> <<>>, status |-> "idle"]

IdleParse ==
    /\ parser = [tokens |-> <<>>, current |-> 0]
    /\ parseOut = [statements |-> <<>>, status |-> "idle", msg |-> ""]

IdleSem ==
    /\ analyzer = [scopes |-> <<<<>>>>, in_function |-> FALSE]
    /\ semOut = [program |-> <<>>, next |-> 1, status |-> "idle", msg |-> ""]

IdleIR ==
    /\ irgen = Object(NewIRGenerator([growth |-> "double", stale |-> "lost"]))
    /\ irOut = [program |-> <<>>, next |-> 1, status |-> "idle", functions |-> <<>>]
    /\ script = [functions |-> <<>>, next |-> 1, status |-> "idle", msg |-> "",
                 wrapper |-> "absent", outFile |-> "closed", text |-> <<>>]
    /\ exec = [status |-> "idle", frames |-> <<>>, out |-> <<>>, seen |-> {}, msg |-> ""]

InitLex ==
    /\ \E s \in Sources(MaxLines) : lexer = NewLexer(s)
    /\ lexOut = [tokens |-> <<>>, status |-> "running"]
    /\ IdleParse
    /\ IdleSem
    /\ IdleIR

\* One iteration of the loop of Lexer::tokenize: a call of next_token.
Tokenize ==
    /\ lexOut.status = "running"
    /\ LET r == next_token(lexer)
       IN  /\ lexer' = r.lexer
           /\ lexOut' =
                IF r.error # "none"
                THEN [tokens |-> <<>>, status |-> r.error]
                ELSE [tokens |-> Append(lexOut.tokens, r.token),
                      status |-> IF r.token.type = "EOF" THEN "done" ELSE "running"]
    /\ UNCHANGED <<parseVars, semVars, irVars>>

NextLex == Tokenize

SpecLex == InitLex /\ [][NextLex]_vars

TokenTypes(ts) == [k \in 1..Len(ts) |-> ts[k].type]

\* C1: when tokenize returns without a lex error, the returned sequence holds
\* exactly one EOF token, that token is last, and there are as many INDENT
\* tokens as DEDENT tokens.
C1_EofLastIndentsBalanced ==
    lexOut.status = "done" =>
        LET ts == TokenTypes(lexOut.tokens)
        IN  /\ ts # <<>>
            /\ Last(ts) = "EOF"
            /\ CountOf(ts, "EOF") = 1
            /\ CountOf(ts, "INDENT") = CountOf(Front(ts), "DEDENT")

\* tokenize has returned a sequence with two nested INDENTs, one of them
\* closed only at end of file.
C1_Witness ==
    /\ lexOut.status = "done"
    /\ CountOf(TokenTypes(lexOut.tokens), "INDENT") = 2
    /\ Len(lexOut.tokens) >= 3
    /\ lexOut.tokens[Len(lexOut.tokens) - 1].type = "DEDENT"

\* The tokens the lexer has emitted so far: those tokenize has collected and
\* those still in the queue.
Emitted == TokenTypes(lexOut.tokens \o lexer.token_queue)

\* k DEDENT tokens
RECURSIVE Dedents(_)
Dedents(k) == IF k = 0 THEN <<>> ELSE Append(Dedents(k - 1), Tok("DEDENT", ""))

\* What the claim says of a line of depth d that starts in lexer state L.
C15_LineStart(L, d) ==
    LET st == L.indent_stack
        t == Last(st)
        r == process_indent(L, d)
        keep == Cardinality({ k \in 1..Len(st) : st[k] <= d })
    IN  CASE d > t -> /\ r.error = "none"
                      /\ r.lexer.indent_stack = Append(st, d)
                      /\ r.lexer.token_queue = Append(L.token_queue, Tok("INDENT", ""))
          [] d = t -> /\ r.error = "none"
                      /\ r.lexer.indent_stack = st
                      /\ r.lexer.token_queue = L.token_queue
          [] d < t -> /\ r.lexer.indent_stack = SubSeq(st, 1, keep)
                      /\ r.lexer.token_queue = L.token_queue \o Dedents(Len(st) - keep)
                      /\ (r.error # "none") <=> (st[keep] # d)

\* C15: in every reachable state the indent stack is strictly increasing from
\* its bottom element 0 and, while no error has been raised, its size minus
\* one is the number of INDENTs emitted minus the number of DEDENTs emitted;
\* a line of depth d that starts there pushes d and emits one INDENT when d
\* exceeds the top, pops every level above d with one DEDENT each and raises
\* an indentation error when the top then differs from d, and emits nothing
\* when d is the top.
C15_IndentStack ==
    /\ lexer.indent_stack # <<>>
    /\ lexer.indent_stack[1] = 0
    /\ \A k \in 1..(Len(lexer.indent_stack) - 1) :
           lexer.indent_stack[k] < lexer.indent_stack[k + 1]
    /\ lexOut.status \in {"running", "done"} =>
           Len(lexer.indent_stack) - 1 =
               CountOf(Emitted, "INDENT") - CountOf(Emitted, "DEDENT")
    /\ \A d \in 0..6 : C15_LineStart(lexer, d)

\* tokenize has returned a sequence in which one line closed two levels: two
\* DEDENTs in a row before an identifier.
C15_Witness ==
    /\ lexOut.status = "done"
    /\ \E k \in 1..(Len(lexOut.tokens) - 3) :
           /\ lexOut.tokens[k].type = "NEWLINE"
           /\ lexOut.tokens[k + 1].type = "DEDENT"
           /\ lexOut.tokens[k + 2].type = "DEDENT"
           /\ lexOut.tokens[k + 3].type = "IDENTIFIER"

\* The lexer has raised the indentation error on a line whose depth lies
\* between two levels of the stack.
C15_ErrorRaised ==
    /\ lexOut.status = "LexerError"
    /\ lexer.indent_stack = <<0>>
    /\ lexer.current_indent = 1

\* The lines of a source: the runs of characters between line feeds, the one
\* after the last line feed included when it is not empty.
RECURSIVE SplitLines(_, _)
SplitLines(s, cur) ==
    IF s = <<>> THEN (IF cur = <<>> THEN <<>> ELSE <<cur>>)
    ELSE IF Head(s) = "\n" THEN <<cur>> \o SplitLines(Tail(s), <<>>)
    ELSE SplitLines(Tail(s), Append(cur, Head(s)))

\* The line without its leading spaces and tabs
RECURSIVE LineBody(_)
LineBody(l) ==
    IF l # <<>> /\ Head(l) \in {" ", "\t"} THEN LineBody(Tail(l)) ELSE l

\* A line of whitespace only, or of whitespace and a // comment
BlankLine(l) ==
    \/ LineBody(l) = <<>>
    \/ Len(LineBody(l)) >= 2 /\ LineBody(l)[1] = "/" /\ LineBody(l)[2] = "/"

\* Every line of the source that is not blank starts in column 1.
FlatSource(s) ==
    \A k \in 1..Len(SplitLines(s, <<>>)) :
        LET l == SplitLines(s, <<>>)[k] IN BlankLine(l) \/ LineBody(l) = l

\* C16: whitespace-only and comment-only lines never change the indentation
\* stack and never produce INDENT, DEDENT or an indentation error: in a
\* source whose other lines all start in column 1 the stack stays <<0>>, no
\* INDENT or DEDENT is emitted and no indentation error is raised, also when
\* the last line is whitespace that no line feed ends.
C16_BlankLinesInert ==
    FlatSource(lexer.source) =>
        /\ lexer.indent_stack = <<0>>
        /\ lexOut.status # "LexerError"
        /\ CountOf(Emitted, "INDENT") = 0
        /\ CountOf(Emitted, "DEDENT") = 0

\* The run of leading spaces and tabs of a line
LeadingRun(l) == SubSeq(l, 1, Len(l) - Len(LineBody(l)))

\* (number of leading spaces) + 4 * (number of leading tabs)
RunDepth(l) == CountOf(LeadingRun(l), " ") + 4 * CountOf(LeadingRun(l), "\t")

\* C17: the depth count_indent gives a line is the number of its leading
\* spaces plus 4 times the number of its leading tabs, in whatever order they
\* stand: when the first line of the source is a code line, the depth the
\* lexer has recorded once that line's first token is out is that number.
C17_DepthCountsRun ==
    (/\ lexer.source # <<>>
     /\ ~BlankLine(SplitLines(lexer.source, <<>>)[1])
     /\ Len(lexOut.tokens) = 1)
        => lexer.current_indent = RunDepth(SplitLines(lexer.source, <<>>)[1])

\* C18: no token sequence of the lexer holds two adjacent NEWLINE tokens, and
\* none starts with a NEWLINE: every NEWLINE follows a token of a code line
\* (never a NEWLINE, an INDENT or a DEDENT), so a run of blank, whitespace-only
\* and comment-only lines between two code lines adds no NEWLINE to the one
\* that ends the first of them, and leading blank lines give none.
C18_NoAdjacentNewlines ==
    \A k \in 1..Len(lexOut.tokens) :
        lexOut.tokens[k].type = "NEWLINE" =>
            /\ k > 1
            /\ lexOut.tokens[k - 1].type \notin {"NEWLINE", "INDENT", "DEDENT"}

\* tokenize has returned one NEWLINE between the two identifiers of a source
\* with an indented comment-only line between its two code lines.
C18_Witness ==
    /\ lexOut.status = "done"
    /\ lexer.source = <<"a", "\n", " ", "/", "/", "\n", "a">>
    /\ TokenTypes(lexOut.tokens) = <<"IDENTIFIER", "NEWLINE", "IDENTIFIER", "EOF">>

\* tokenize has returned no NEWLINE in front of the identifier of a source
\* that starts with an empty line and a whitespace-only line.
C18_LeadingBlankLines ==
    /\ lexOut.status = "done"
    /\ lexer.source = <<"\n", "\t", "\n", "a", "\n">>
    /\ TokenTypes(lexOut.tokens) = <<"IDENTIFIER", "NEWLINE", "EOF">>

(***************************************************************************)
(* AST  (src/include/ast.h).  A node is a record with a kind; an absent    *)
(* child (nullptr) is Null.                                                *)
(***************************************************************************)
Null == [kind |-> "null"]

Literal(type, value) == [kind |-> "Literal", type |-> type, value |-> value]
Variable(name) == [kind |-> "Variable", name |-> name]
Binary(left, op, right) == [kind |-> "Binary", left |-> left, op |-> op, right |-> right]
Unary(op, right) == [kind |-> "Unary", op |-> op, right |-> right]
Call(callee, arguments) == [kind |-> "Call", callee |-> callee, arguments |-> arguments]
Array(elements) == [kind |-> "Array", elements |-> elements]
ArrayAccess(array, index) == [kind |-> "ArrayAccess", array |-> array, index |-> index]
MemberAccess(object, member) == [kind |-> "MemberAccess", object |-> object, member |-> member]

ExpressionStatement(e) == [kind |-> "ExpressionStatement", expression |-> e]
VarDeclaration(name, init) == [kind |-> "VarDeclaration", name |-> name, initializer |-> init]
FunctionDeclaration(name, params, body) ==
    [kind |-> "FunctionDeclaration", name |-> name, parameters |-> params, body |-> body]
BlockStatement(stmts) == [kind |-> "Block", statements |-> stmts]
IfStatement(c, t, e) == [kind |-> "If", condition |-> c, then_branch |-> t, else_branch |-> e]
WhileStatement(c, b) == [kind |-> "While", condition |-> c, body |-> b]
LoopInStatement(v, it, b) == [kind |-> "LoopIn", variable |-> v, iterable |-> it, body |-> b]
LoopTimesStatement(c, b) == [kind |-> "LoopTimes", count |-> c, body |-> b]
ReturnStatement(v) == [kind |-> "Return", value |-> v]
PrintStatement(e) == [kind |-> "Print", expression |-> e]
InputStatement(v) == [kind |-> "Input", variable |-> v]
Program(stmts) == [kind |-> "Program", statements |-> stmts]

(***************************************************************************)
(* PARSER  (src/src/parser.cpp).  The cursor `current` counts the tokens   *)
(* consumed; a parsing method takes the token vector and the cursor and    *)
(* returns the node with the new cursor, or the ParseError it throws.      *)
(***************************************************************************)
Ok(node, cur) == [ok |-> TRUE, node |-> node, cur |-> cur, msg |-> ""]
ParseError(cur, msg) == [ok |-> FALSE, node |-> Null, cur |-> cur, msg |-> msg]

isAtEnd(toks, cur) == cur >= Len(toks) \/ toks[cur + 1].type = "EOF"

Parser_peek(toks, cur) ==
    IF cur >= Len(toks)
    THEN IF toks # <<>> THEN Last(toks) ELSE Tok("EOF", "")
    ELSE toks[cur + 1]

previous(toks, cur) == toks[cur]

check(toks, cur, type) == ~isAtEnd(toks, cur) /\ Parser_peek(toks, cur).type = type

\* match(type): the cursor after the call (advanced iff the token matched).
match(toks, cur, type) == IF check(toks, cur, type) THEN cur + 1 ELSE cur

\* match({types...}): true iff one of the types is at the cursor.
match_any(toks, cur, types) == \E t \in types : check(toks, cur, t)

consume(toks, cur, type, msg) ==
    IF check(toks, cur, type) THEN Ok(Null, cur + 1) ELSE ParseError(cur, msg)

or_ops == {"OR"}
and_ops == {"AND"}
equality_ops == {"EQUAL", "NOT_EQUAL"}
comparison_ops == {"LESS", "LESS_EQUAL", "GREATER", "GREATER_EQUAL"}
term_ops == {"PLUS", "MINUS", "CONCAT"}
\* A factor tier that also takes '+'.
factor_ops_with_plus == {"MULTIPLY", "DIVIDE", "PLUS"}
factor_ops == {"MULTIPLY", "DIVIDE"}
unary_ops == {"MINUS", "NOT"}


RECURSIVE expression(_, _), assignment(_, _), logical_or(_, _), logical_or_loop(_, _, _),
          logical_and(_, _), logical_and_loop(_, _, _), equality(_, _), equality_loop(_, _, _),
          comparison(_, _), comparison_loop(_, _, _), term(_, _), term_loop(_, _, _),
          factor(_, _), factor_loop(_, _, _), unary(_, _), call(_, _), call_loop(_, _, _),
          primary(_, _), finish_call(_, _, _), arguments(_, _), expression_list(_, _, _)

\* do { list.push_back(expression()); } while (match(COMMA));
expression_list(toks, cur, acc) ==
    Then(expression(toks, cur), LAMBDA e :
        IF check(toks, e.cur, "COMMA")
        THEN expression_list(toks, e.cur + 1, Append(acc, e.node))
        ELSE Ok(Append(acc, e.node), e.cur))

arguments(toks, cur) ==
    IF ~check(toks, cur, "RPAREN") THEN expression_list(toks, cur, <<>>)
    ELSE Ok(<<>>, cur)

finish_call(toks, callee, cur) ==
    Then(arguments(toks, cur), LAMBDA args :
    Then(consume(toks, args.cur, "RPAREN", "Expected ')' after arguments."), LAMBDA c :
        IF callee.kind = "Variable"
        THEN Ok(Call(callee.name, args.node), c.cur)
        ELSE ParseError(c.cur, "Expected function name.")))

\* A primary that takes any token that is not the end as an operand.
primary_any(toks, cur) ==
    IF isAtEnd(toks, cur) THEN ParseError(cur, "Expected expression.")
    ELSE Ok(Variable(Parser_peek(toks, cur).value), cur + 1)

primary(toks, cur) ==
    LET t == Parser_peek(toks, cur)
    IN  IF check(toks, cur, "BOOLEAN") THEN Ok(Literal("bool", t.value), cur + 1)
        ELSE IF check(toks, cur, "INTEGER") THEN Ok(Literal("int", t.value), cur + 1)
        ELSE IF check(toks, cur, "FLOAT") THEN Ok(Literal("double", t.value), cur + 1)
        ELSE IF check(toks, cur, "STRING") THEN Ok(Literal("string", t.value), cur + 1)
        ELSE IF check(toks, cur, "IDENTIFIER") THEN Ok(Variable(t.value), cur + 1)
        ELSE IF check(toks, cur, "LPAREN")
        THEN Then(expression(toks, cur + 1), LAMBDA e :
             Then(consume(toks, e.cur, "RPAREN", "Expected ')' after expression."), LAMBDA c :
                 Ok(e.node, c.cur)))
        ELSE IF check(toks, cur, "LBRACKET")
        THEN Then(IF ~check(toks, cur + 1, "RBRACKET")
                  THEN expression_list(toks, cur + 1, <<>>)
                  ELSE Ok(<<>>, cur + 1), LAMBDA els :
             Then(consume(toks, els.cur, "RBRACKET", "Expected ']' after array elements."),
                  LAMBDA c : Ok(Array(els.node), c.cur)))
        ELSE ParseError(cur, "Expected expression.")

\* The while (true) loop of call(): postfix '(' args ')', '[' index ']', '.' name.
call_loop(toks, expr, cur) ==
    IF check(toks, cur, "LPAREN")
    THEN Then(finish_call(toks, expr, cur + 1), LAMBDA f : call_loop(toks, f.node, f.cur))
    ELSE IF check(toks, cur, "LBRACKET")
    THEN Then(expression(toks, cur + 1), LAMBDA i :
         Then(consume(toks, i.cur, "RBRACKET", "Expected ']' after array index."), LAMBDA c :
             call_loop(toks, ArrayAccess(expr, i.node), c.cur)))
    ELSE IF check(toks, cur, "DOT")
    THEN IF check(toks, cur + 1, "IDENTIFIER")
         THEN call_loop(toks, MemberAccess(expr, toks[cur + 2].value), cur + 2)
         ELSE ParseError(cur + 1, "Expected property name after '.'.")
    ELSE Ok(expr, cur)

call(toks, cur) ==
    Then(primary(toks, cur), LAMBDA p : call_loop(toks, p.node, p.cur))

unary(toks, cur) ==
    IF match_any(toks, cur, unary_ops)
    THEN Then(unary(toks, cur + 1), LAMBDA r : Ok(Unary(toks[cur + 1].type, r.node), r.cur))
    ELSE call(toks, cur)

\* factor(): expr is the tree built so far (Null before the first operand) and
\* cur the cursor at the next operand; while (match(factor_ops)) goes round.
factor_loop(toks, expr, cur) ==
    Then(unary(toks, cur), LAMBDA r :
        Bind(IF expr = Null THEN r.node ELSE Binary(expr, toks[cur].type, r.node), LAMBDA e :
            IF match_any(toks, r.cur, factor_ops)
            THEN factor_loop(toks, e, r.cur + 1)
            ELSE Ok(e, r.cur)))

factor(toks, cur) == factor_loop(toks, Null, cur)

\* term(): expr is the tree built so far (Null before the first operand) and
\* cur the cursor at the next operand; while (match(term_ops)) goes round.
term_loop(toks, expr, cur) ==
    Then(factor(toks, cur), LAMBDA r :
        Bind(IF expr = Null THEN r.node ELSE Binary(expr, toks[cur].type, r.node), LAMBDA e :
            IF match_any(toks, r.cur, term_ops)
            THEN term_loop(toks, e, r.cur + 1)
            ELSE Ok(e, r.cur)))

term(toks, cur) == term_loop(toks, Null, cur)

\* comparison(): expr is the tree built so far (Null before the first operand) and
\* cur the cursor at the next operand; while (match(comparison_ops)) goes round.
comparison_loop(toks, expr, cur) ==
    Then(term(toks, cur), LAMBDA r :
        Bind(IF expr = Null THEN r.node ELSE Binary(expr, toks[cur].type, r.node), LAMBDA e :
            IF match_any(toks, r.cur, comparison_ops)
            THEN comparison_loop(toks, e, r.cur + 1)
            ELSE Ok(e, r.cur)))

comparison(toks, cur) == comparison_loop(toks, Null, cur)

\* equality(): expr is the tree built so far (Null before the first operand) and
\* cur the cursor at the next operand; while (match(equality_ops)) goes round.
equality_loop(toks, expr, cur) ==
    Then(comparison(toks, cur), LAMBDA r :
        Bind(IF expr = Null THEN r.node ELSE Binary(expr, toks[cur].type, r.node), LAMBDA e :
            IF match_any(toks, r.cur, equality_ops)
            THEN equality_loop(toks, e, r.cur + 1)
            ELSE Ok(e, r.cur)))

equality(toks, cur) == equality_loop(toks, Null, cur)

\* logical_and(): expr is the tree built so far (Null before the first operand) and
\* cur the cursor at the next operand; while (match(and_ops)) goes round.
logical_and_loop(toks, expr, cur) ==
    Then(equality(toks, cur), LAMBDA r :
        Bind(IF expr = Null THEN r.node ELSE Binary(expr, toks[cur].type, r.node), LAMBDA e :
            IF match_any(toks, r.cur, and_ops)
            THEN logical_and_loop(toks, e, r.cur + 1)
            ELSE Ok(e, r.cur)))

logical_and(toks, cur) == logical_and_loop(toks, Null, cur)

\* logical_or(): expr is the tree built so far (Null before the first operand) and
\* cur the cursor at the next operand; while (match(or_ops)) goes round.
logical_or_loop(toks, expr, cur) ==
    Then(logical_and(toks, cur), LAMBDA r :
        Bind(IF expr = Null THEN r.node ELSE Binary(expr, toks[cur].type, r.node), LAMBDA e :
            IF match_any(toks, r.cur, or_ops)
            THEN logical_or_loop(toks, e, r.cur + 1)
            ELSE Ok(e, r.cur)))

logical_or(toks, cur) == logical_or_loop(toks, Null, cur)

\* An assignment() that also lets a call stand left of '='.
assignment_targets_with_call == {"Variable", "ArrayAccess", "Call"}
\* The dynamic_casts of assignment(): the node kinds an '=' may follow.
assignment_targets == {"Variable", "ArrayAccess"}

assignment(toks, cur) ==
    Then(logical_or(toks, cur), LAMBDA e :
        IF check(toks, e.cur, "ASSIGN")
        THEN Then(assignment(toks, e.cur + 1), LAMBDA v :
                 IF e.node.kind \in assignment_targets
                 THEN Ok(Binary(e.node, "ASSIGN", v.node), v.cur)
                 ELSE ParseError(v.cur, "Invalid assignment target."))
        ELSE e)

expression(toks, cur) == assignment(toks, cur)

RECURSIVE declaration(_, _), statement(_, _), block(_, _), block_loop(_, _, _),
          if_statement(_, _), while_statement(_, _), loop_statement(_, _),
          func_declaration(_, _), body_after_colon(_, _, _)

\* do { match(IDENTIFIER) ... } while (match(COMMA));
RECURSIVE parameters_loop(_, _, _)
parameters_loop(toks, cur, acc) ==
    IF check(toks, cur, "IDENTIFIER")
    THEN IF check(toks, cur + 1, "COMMA")
         THEN parameters_loop(toks, cur + 2, Append(acc, toks[cur + 1].value))
         ELSE Ok(Append(acc, toks[cur + 1].value), cur + 1)
    ELSE ParseError(cur, "Expected parameter name.")

parameters(toks, cur) ==
    IF ~check(toks, cur, "RPAREN") THEN parameters_loop(toks, cur, <<>>)
    ELSE Ok(<<>>, cur)

var_declaration(toks, cur) ==
    IF check(toks, cur, "IDENTIFIER")
    THEN IF check(toks, cur + 1, "ASSIGN")
         THEN Then(expression(toks, cur + 2), LAMBDA e :
                  Ok(VarDeclaration(toks[cur + 1].value, e.node),
                     match(toks, e.cur, "NEWLINE")))
         ELSE Ok(VarDeclaration(toks[cur + 1].value, Null), match(toks, cur + 1, "NEWLINE"))
    ELSE ParseError(cur, "Expected variable name.")

\* The common tail of the compound statements: after the ':' has been
\* consumed, match(NEWLINE); consume(INDENT, msg); block().
body_after_colon(toks, cur, msg) ==
    Then(consume(toks, match(toks, cur, "NEWLINE"), "INDENT", msg), LAMBDA i :
        block(toks, i.cur))

func_declaration(toks, cur) ==
    IF check(toks, cur, "IDENTIFIER")
    THEN Then(consume(toks, cur + 1, "LPAREN", "Expected '(' after function name."), LAMBDA lp :
         Then(parameters(toks, lp.cur), LAMBDA ps :
         Then(consume(toks, ps.cur, "RPAREN", "Expected ')' after parameters."), LAMBDA rp :
         Then(consume(toks, rp.cur, "COLON", "Expected ':' after function declaration."),
              LAMBDA c :
         Then(body_after_colon(toks, c.cur, "Expected indented function body."), LAMBDA b :
             Ok(FunctionDeclaration(toks[cur + 1].value, ps.node, b.node), b.cur))))))
    ELSE ParseError(cur, "Expected function name.")

if_statement(toks, cur) ==
    Then(expression(toks, cur), LAMBDA cond :
    Then(consume(toks, cond.cur, "COLON", "Expected ':' after if condition."), LAMBDA c :
    Then(body_after_colon(toks, c.cur, "Expected indented if body."), LAMBDA th :
        IF check(toks, th.cur, "ELSE")
        THEN IF check(toks, th.cur + 1, "IF")
             THEN Then(if_statement(toks, th.cur + 2), LAMBDA ei :
                      Ok(IfStatement(cond.node, th.node, ei.node), ei.cur))
             ELSE Then(consume(toks, th.cur + 1, "COLON", "Expected ':' after else."),
                       LAMBDA ec :
                  Then(body_after_colon(toks, ec.cur, "Expected indented else body."),
                       LAMBDA el :
                      Ok(IfStatement(cond.node, th.node, el.node), el.cur)))
        ELSE Ok(IfStatement(cond.node, th.node, Null), th.cur))))

while_statement(toks, cur) ==
    Then(expression(toks, cur), LAMBDA cond :
    Then(consume(toks, cond.cur, "COLON", "Expected ':' after while condition."), LAMBDA c :
    Then(body_after_colon(toks, c.cur, "Expected indented while body."), LAMBDA b :
        Ok(WhileStatement(cond.node, b.node), b.cur))))

\* The "loop N times" branch of loop_statement, after its check succeeded.
loop_times_branch(toks, cur) ==
    Then(expression(toks, cur), LAMBDA count :
    Then(consume(toks, count.cur, "TIMES", "Expected 'times' after count."), LAMBDA t :
    Then(consume(toks, t.cur, "COLON", "Expected ':' after loop times."), LAMBDA c :
    Then(body_after_colon(toks, c.cur, "Expected indented loop body."), LAMBDA b :
        Ok(LoopTimesStatement(count.node, b.node), b.cur)))))

\* The "loop var in collection" branch of loop_statement, after match(IDENTIFIER).
loop_in_branch(toks, cur) ==
    Then(consume(toks, cur, "IN", "Expected 'in' after variable in loop."), LAMBDA i :
    Then(expression(toks, i.cur), LAMBDA it :
    Then(consume(toks, it.cur, "COLON", "Expected ':' after loop in."), LAMBDA c :
    Then(body_after_colon(toks, c.cur, "Expected indented loop body."), LAMBDA b :
        Ok(LoopInStatement(toks[cur].value, it.node, b.node), b.cur)))))

loop_statement(toks, cur) ==
    IF check(toks, cur, "INTEGER") \/ check(toks, cur, "IDENTIFIER")
    THEN loop_times_branch(toks, cur)
    ELSE IF check(toks, cur, "IDENTIFIER")
    THEN loop_in_branch(toks, cur + 1)
    ELSE ParseError(cur, "Expected variable name or number after 'loop'.")

return_statement(toks, cur) ==
    IF ~check(toks, cur, "NEWLINE")
    THEN Then(expression(toks, cur), LAMBDA v :
             Ok(ReturnStatement(v.node), match(toks, v.cur, "NEWLINE")))
    ELSE Ok(ReturnStatement(Null), match(toks, cur, "NEWLINE"))

print_statement(toks, cur) ==
    Then(expression(toks, cur), LAMBDA v :
        Ok(PrintStatement(v.node), match(toks, v.cur, "NEWLINE")))

input_statement(toks, cur) ==
    IF check(toks, cur, "IDENTIFIER")
    THEN Ok(InputStatement(toks[cur + 1].value), match(toks, cur + 1, "NEWLINE"))
    ELSE ParseError(cur, "Expected variable name after 'input'.")

expression_statement(toks, cur) ==
    Then(expression(toks, cur), LAMBDA e :
        Ok(ExpressionStatement(e.node), match(toks, e.cur, "NEWLINE")))

statement(toks, cur) ==
    IF check(toks, cur, "IF") THEN if_statement(toks, cur + 1)
    ELSE IF check(toks, cur, "WHILE") THEN while_statement(toks, cur + 1)
    ELSE IF check(toks, cur, "LOOP") THEN loop_statement(toks, cur + 1)
    ELSE IF check(toks, cur, "RETURN") THEN return_statement(toks, cur + 1)
    ELSE IF check(toks, cur, "PRINT") THEN print_statement(toks, cur + 1)
    ELSE IF check(toks, cur, "INPUT") THEN input_statement(toks, cur + 1)
    ELSE expression_statement(toks, cur)

declaration(toks, cur) ==
    IF check(toks, cur, "VAR") THEN var_declaration(toks, cur + 1)
    ELSE IF check(toks, cur, "FUNC") THEN func_declaration(toks, cur + 1)
    ELSE statement(toks, cur)

\* while (!check(DEDENT) && !check(EOF_TOKEN)): check(EOF_TOKEN) is false at
\* every cursor because check returns false when isAtEnd.
block_loop(toks, cur, acc) ==
    IF ~check(toks, cur, "DEDENT") /\ ~check(toks, cur, "EOF")
    THEN IF check(toks, cur, "NEWLINE") THEN block_loop(toks, cur + 1, acc)
         ELSE Then(declaration(toks, cur), LAMBDA d :
                  block_loop(toks, d.cur, Append(acc, d.node)))
    ELSE Ok(acc, cur)

block(toks, cur) ==
    Then(block_loop(toks, cur, <<>>), LAMBDA l :
    Then(consume(toks, l.cur, "DEDENT", "Expected dedent at end of block."), LAMBDA c :
        Ok(BlockStatement(l.node), c.cur)))

(***************************************************************************)
(* Parser inputs: token vectors the lexer produces (they end with EOF and  *)
(* every INDENT is closed by a DEDENT).                                    *)
(***************************************************************************)
MaxOps == 2
MaxStmts == 2

T(type) == Tok(type, "")
IDENT(name) == Tok("IDENTIFIER", name)
INT(text) == Tok("INTEGER", text)

BinaryOps ==
    factor_ops \cup term_ops \cup comparison_ops \cup equality_ops
        \cup and_ops \cup or_ops \cup {"ASSIGN"}
OperandNames == <<"a", "b", "c", "d", "e">>

\* a (operator b (operator c ...)) NEWLINE EOF with at most maxOps operators
ChainStreams(maxOps) ==
    UNION { { [i \in 1..(2 * k + 1) |->
                  IF i % 2 = 1 THEN IDENT(OperandNames[(i + 1) \div 2])
                  ELSE T(ops[i \div 2])]
              \o <<T("NEWLINE"), T("EOF")>>
              : ops \in [1..k -> BinaryOps] }
            : k \in 0..maxOps }

TargetForms ==
    {"Variable", "ArrayAccess", "Grouping", "Literal", "Call", "MemberAccess",
     "Binary", "Unary", "Array"}

TargetTokens(form) ==
    CASE form = "Variable" -> <<IDENT("x")>>
      [] form = "ArrayAccess" -> <<IDENT("x"), T("LBRACKET"), INT("4"), T("RBRACKET")>>
      [] form = "Grouping" -> <<T("LPAREN"), IDENT("x"), T("RPAREN")>>
      [] form = "Literal" -> <<INT("4")>>
      [] form = "Call" -> <<IDENT("f"), T("LPAREN"), T("RPAREN")>>
      [] form = "MemberAccess" -> <<IDENT("x"), T("DOT"), IDENT("m")>>
      [] form = "Binary" -> <<IDENT("x"), T("PLUS"), INT("4")>>
      [] form = "Unary" -> <<T("MINUS"), IDENT("x")>>
      [] form = "Array" -> <<T("LBRACKET"), INT("4"), T("RBRACKET")>>

AssignValues == { <<INT("4")>>, <<IDENT("y"), T("ASSIGN"), INT("4")>> }
AssignContexts == {"stmt", "print", "var", "paren", "arg", "index", "block"}

\* target '=' value, placed where the grammar allows an expression
AssignStream(form, value, ctx) ==
    LET a == TargetTokens(form) \o <<T("ASSIGN")>> \o value
        nl == <<T("NEWLINE")>>
    IN  (CASE ctx = "stmt" -> a \o nl
           [] ctx = "print" -> <<T("PRINT")>> \o a \o nl
           [] ctx = "var" -> <<T("VAR"), IDENT("y"), T("ASSIGN")>> \o a \o nl
           [] ctx = "paren" -> <<T("LPAREN")>> \o a \o <<T("RPAREN")>> \o nl
           [] ctx = "arg" -> <<IDENT("f"), T("LPAREN")>> \o a \o <<T("RPAREN")>> \o nl
           [] ctx = "index" -> <<IDENT("x"), T("LBRACKET")>> \o a \o <<T("RBRACKET")>> \o nl
           [] ctx = "block" -> <<T("IF"), IDENT("x"), T("COLON"), T("NEWLINE"), T("INDENT")>>
                                   \o a \o nl \o <<T("DEDENT")>>)
        \o <<T("EOF")>>

AssignStreams ==
    { AssignStream(f, v, c) : f \in TargetForms, v \in AssignValues, c \in AssignContexts }

\* The simple statements, without their line end.
Fragments ==
    { <<T("VAR"), IDENT("x")>>,
      <<T("VAR"), IDENT("x"), T("ASSIGN"), INT("4")>>,
      <<T("RETURN")>>,
      <<T("RETURN"), IDENT("x")>>,
      <<T("PRINT"), INT("4")>>,
      <<T("INPUT"), IDENT("x")>>,
      <<IDENT("x"), T("ASSIGN"), INT("4")>>,
      <<IDENT("f"), T("LPAREN"), T("RPAREN")>> }

\* 1..MaxStmts simple statements, each with or without a NEWLINE after it
StmtSeqs ==
    UNION { [1..k -> [frag : Fragments, nl : BOOLEAN]] : k \in 1..MaxStmts }

StmtTokens(ss) ==
    Concat([k \in 1..Len(ss) |->
               IF ss[k].nl THEN Append(ss[k].frag, T("NEWLINE")) ELSE ss[k].frag])

StmtStream(ss) == Append(StmtTokens(ss), T("EOF"))
StmtStreams(seqs) == { StmtStream(ss) : ss \in seqs }

Headers ==
    { <<T("IF"), IDENT("x"), T("COLON")>>,
      <<T("WHILE"), IDENT("x"), T("COLON")>>,
      <<T("LOOP"), INT("3"), T("TIMES"), T("COLON")>>,
      <<T("LOOP"), IDENT("n"), T("TIMES"), T("COLON")>>,
      <<T("LOOP"), IDENT("v"), T("IN"), IDENT("xs"), T("COLON")>>,
      <<T("FUNC"), IDENT("f"), T("LPAREN"), T("RPAREN"), T("COLON")>>,
      <<T("FUNC"), IDENT("f"), T("LPAREN"), IDENT("x"), T("COMMA"), IDENT("y"),
        T("RPAREN"), T("COLON")>> }

\* header NEWLINE INDENT statements DEDENT EOF
BlockStream(h, ss) ==
    h \o <<T("NEWLINE"), T("INDENT")>> \o StmtTokens(ss) \o <<T("DEDENT"), T("EOF")>>
BlockStreams(seqs) == { BlockStream(h, ss) : h \in Headers, ss \in seqs }

ElseStreams ==
    LET thenPart == <<T("IF"), IDENT("x"), T("COLON"), T("NEWLINE"), T("INDENT"),
                      T("PRINT"), INT("4"), T("NEWLINE"), T("DEDENT")>>
        body == <<T("COLON"), T("NEWLINE"), T("INDENT"), T("PRINT"), INT("4"),
                  T("NEWLINE"), T("DEDENT")>>
    IN  { thenPart \o <<T("ELSE")>> \o body \o <<T("EOF")>>,
          thenPart \o <<T("ELSE"), T("IF"), IDENT("y")>> \o body \o <<T("EOF")>> }

\* x + y * 4,  4 - x - y
ExampleStreams ==
    { <<IDENT("x"), T("PLUS"), IDENT("y"), T("MULTIPLY"), INT("4"), T("NEWLINE"), T("EOF")>>,
      <<INT("4"), T("MINUS"), IDENT("x"), T("MINUS"), IDENT("y"), T("NEWLINE"), T("EOF")>> }

ParseInputs(maxOps, seqs) ==
    ChainStreams(maxOps) \cup AssignStreams \cup StmtStreams(seqs) \cup BlockStreams(seqs)
        \cup ElseStreams \cup ExampleStreams

InitParse ==
    /\ \E ts \in ParseInputs(MaxOps, StmtSeqs) : parser = [tokens |-> ts, current |-> 0]
    /\ parseOut = [statements |-> <<>>, status |-> "running", msg |-> ""]
    /\ IdleLex
    /\ IdleSem
    /\ IdleIR

\* Parser::program, one iteration of while (!isAtEnd()): a NEWLINE is skipped,
\* anything else is parsed as a declaration.  A ParseError leaves program()
\* and parse() (the message is kept without its line tag).
ProgramDeclaration ==
    /\ parseOut.status = "running"
    /\ ~isAtEnd(parser.tokens, parser.current)
    /\ IF check(parser.tokens, parser.current, "NEWLINE")
       THEN /\ parser' = [parser EXCEPT !.current = @ + 1]
            /\ UNCHANGED parseOut
       ELSE LET d == declaration(parser.tokens, parser.current)
            IN  /\ parser' = [parser EXCEPT !.current = d.cur]
                /\ parseOut' =
                     IF d.ok
                     THEN [parseOut EXCEPT !.statements = Append(@, d.node)]
                     ELSE [statements |-> <<>>, status |-> "error", msg |-> d.msg]
    /\ UNCHANGED <<lexVars, semVars, irVars>>

\* Parser::program leaves its loop and returns the Program.
ProgramReturn ==
    /\ parseOut.status = "running"
    /\ isAtEnd(parser.tokens, parser.current)
    /\ parseOut' = [parseOut EXCEPT !.status = "done"]
    /\ UNCHANGED <<parser, lexVars, semVars, irVars>>

NextParse == ProgramDeclaration \/ ProgramReturn

SpecParse == InitParse /\ [][NextParse]_vars

(***************************************************************************)
(* Properties of the parser                                                *)
(***************************************************************************)
ParseFinished == parseOut.status \in {"done", "error"}

(***************************************************************************)
(* Specification of Parser::parse over token vectors of any shape that end *)
(* with EOF: every sequence of up to MaxTokens tokens of a small alphabet, *)
(* blocks that the end of the input cuts short, and well-formed blocks.    *)
(* program() is scheduled until it returns or raises.                      *)
(***************************************************************************)
MaxTokens == 3

AnyTokens ==
    { IDENT("x"), INT("4"), T("NEWLINE"), T("INDENT"), T("DEDENT"), T("PRINT"), T("IF"),
      T("COLON"), T("ASSIGN") }

\* header NEWLINE INDENT statements EOF, with no DEDENT
CutStreams(seqs) ==
    { h \o <<T("NEWLINE"), T("INDENT")>> \o StmtTokens(ss) \o <<T("EOF")>>
        : h \in Headers, ss \in seqs }
        \cup { h \o <<T("NEWLINE"), T("INDENT"), T("EOF")>> : h \in Headers }

\* one simple statement and its NEWLINE
OneStatement == { <<[frag |-> f, nl |-> TRUE]>> : f \in Fragments }

AnyStreams(maxTokens) ==
    { Append(ts, T("EOF")) : ts \in SeqsUpTo(AnyTokens, maxTokens) }
        \cup CutStreams(OneStatement) \cup BlockStreams(OneStatement)

InitParseAny ==
    /\ \E ts \in AnyStreams(MaxTokens) : parser = [tokens |-> ts, current |-> 0]
    /\ parseOut = [statements |-> <<>>, status |-> "running", msg |-> ""]
    /\ IdleLex
    /\ IdleSem
    /\ IdleIR

SpecParseAny == InitParseAny /\ [][NextParse]_vars /\ WF_vars(NextParse)

\* no DEDENT stands between the cursor and the end of the tokens
NoDedentFrom(toks, cur) ==
    \A k \in (cur + 1)..Len(toks) : toks[k].type # "DEDENT"

\* declaration() and block() entered at any cursor of the token vector: a
\* declaration that returns has consumed a token, a declaration at an INDENT
\* raises, a block that returns has consumed its DEDENT last, and a block
\* with no DEDENT before the end raises.
C30_Calls ==
    \A cur \in 0..(Len(parser.tokens) - 1) :
        LET toks == parser.tokens
            d == declaration(toks, cur)
            b == block(toks, cur)
        IN  /\ d.ok => d.cur > cur
            /\ toks[cur + 1].type = "INDENT" => ~d.ok
            /\ b.ok => (b.cur > cur /\ toks[b.cur].type = "DEDENT")
            /\ NoDedentFrom(toks, cur) => ~b.ok

\* C30: Parser::parse terminates on every token sequence that ends in EOF:
\* every call of declaration() consumes at least one token or raises a
\* ParseError, so each turn of the loop of program() moves the cursor forward
\* or ends the parse with an error and the parse comes to an end; block()
\* raises a ParseError when the end of the input comes before its DEDENT;
\* and an INDENT where a statement should start is rejected with a
\* ParseError.
C30_ParseTerminates ==
    /\ []C30_Calls
    /\ [][ProgramDeclaration =>
             (parser'.current > parser.current \/ parseOut'.status = "error")]_vars
    /\ <>ParseFinished

\* The end of the input came before the DEDENT of the block of an `if`: the
\* parse has ended with a ParseError.
C30_Witness ==
    /\ parser.tokens = <<T("IF"), IDENT("x"), T("COLON"), T("NEWLINE"), T("INDENT"),
                         T("PRINT"), INT("4"), T("NEWLINE"), T("EOF")>>
    /\ parseOut.status = "error"
    /\ parseOut.msg = "Expected expression."

\* An INDENT where a statement should start: the parse has ended with a
\* ParseError.
C30_StrayIndentRejected ==
    /\ parser.tokens = <<IDENT("x"), T("NEWLINE"), T("INDENT"), T("EOF")>>
    /\ parser.current = 2
    /\ parseOut.status = "error"

\* Every '=' node below n has a Variable or an ArrayAccess on its left.
RECURSIVE AssignTargetsOk(_)
AssignTargetsOk(n) ==
    LET all(ns) == \A k \in 1..Len(ns) : AssignTargetsOk(ns[k])
    IN  CASE n.kind \in {"null", "Literal", "Variable", "Input"} -> TRUE
          [] n.kind = "Binary" ->
                /\ n.op = "ASSIGN" => n.left.kind \in {"Variable", "ArrayAccess"}
                /\ AssignTargetsOk(n.left)
                /\ AssignTargetsOk(n.right)
          [] n.kind = "Unary" -> AssignTargetsOk(n.right)
          [] n.kind = "Call" -> all(n.arguments)
          [] n.kind = "Array" -> all(n.elements)
          [] n.kind = "ArrayAccess" -> AssignTargetsOk(n.array) /\ AssignTargetsOk(n.index)
          [] n.kind = "MemberAccess" -> AssignTargetsOk(n.object)
          [] n.kind \in {"ExpressionStatement", "Print"} -> AssignTargetsOk(n.expression)
          [] n.kind = "VarDeclaration" -> AssignTargetsOk(n.initializer)
          [] n.kind = "FunctionDeclaration" -> AssignTargetsOk(n.body)
          [] n.kind \in {"Block", "Program"} -> all(n.statements)
          [] n.kind = "If" ->
                /\ AssignTargetsOk(n.condition)
                /\ AssignTargetsOk(n.then_branch)
                /\ AssignTargetsOk(n.else_branch)
          [] n.kind = "While" -> AssignTargetsOk(n.condition) /\ AssignTargetsOk(n.body)
          [] n.kind = "LoopIn" -> AssignTargetsOk(n.iterable) /\ AssignTargetsOk(n.body)
          [] n.kind = "LoopTimes" -> AssignTargetsOk(n.count) /\ AssignTargetsOk(n.body)
          [] n.kind = "Return" -> AssignTargetsOk(n.value)

InvalidTargetForms == {"Literal", "Call", "MemberAccess", "Binary", "Unary", "Array"}

\* C3: every Binary node with operator ASSIGN in a Program that parse returns
\* has a Variable or an ArrayAccess as its left operand, and an '=' whose left
\* side is a literal, a call, a member access, a binary, a unary or an array
\* literal makes parse fail with "Invalid assignment target".
C3_AssignTargets ==
    /\ parseOut.status = "done" => AssignTargetsOk(Program(parseOut.statements))
    /\ \A f \in InvalidTargetForms, v \in AssignValues, c \in AssignContexts :
          (parser.tokens = AssignStream(f, v, c) /\ ParseFinished)
              => /\ parseOut.status = "error"
                 /\ parseOut.msg = "Invalid assignment target."

\* parse has failed on  f(f() = 4)  with the invalid-target error.
C3_Witness ==
    /\ parser.tokens = AssignStream("Call", <<INT("4")>>, "arg")
    /\ parseOut.status = "error"
    /\ parseOut.msg = "Invalid assignment target."

LoopInStreams ==
    { BlockStream(<<T("LOOP"), IDENT("v"), T("IN"), IDENT("xs"), T("COLON")>>, ss)
        : ss \in { q \in StmtSeqs : \A k \in 1..Len(q) : q[k].nl } }

\* C5: `loop IDENT in <expression>:` followed by an indented block parses
\* into LoopIn(IDENT, iterable, body); the parser does not ask for `times`.
C5_LoopInParses ==
    (parser.tokens \in LoopInStreams /\ ParseFinished)
        => /\ parseOut.status = "done"
           /\ Len(parseOut.statements) = 1
           /\ parseOut.statements[1].kind = "LoopIn"
           /\ parseOut.statements[1].variable = "v"
           /\ parseOut.statements[1].iterable = Variable("xs")

\* The tiers of the binary operators: a larger number binds tighter.
C9_Tier(op) ==
    CASE op \in {"MULTIPLY", "DIVIDE"} -> 6
      [] op \in {"PLUS", "MINUS", "CONCAT"} -> 5
      [] op \in {"LESS", "LESS_EQUAL", "GREATER", "GREATER_EQUAL"} -> 4
      [] op \in {"EQUAL", "NOT_EQUAL"} -> 3
      [] op = "AND" -> 2
      [] op = "OR" -> 1
      [] op = "ASSIGN" -> 0

C9_OperandTypes == {"IDENTIFIER", "INTEGER"}

\* ts is  operand (operator operand)* NEWLINE EOF
C9_IsChain(ts) ==
    /\ Len(ts) >= 3
    /\ Len(ts) % 2 = 1
    /\ ts[Len(ts)].type = "EOF"
    /\ ts[Len(ts) - 1].type = "NEWLINE"
    /\ \A i \in 1..(Len(ts) - 2) :
          IF i % 2 = 1 THEN ts[i].type \in C9_OperandTypes
          ELSE ts[i].type \in DOMAIN [o \in BinaryOps |-> 0]

\* The tree that tiers and associativity prescribe for ts[lo..hi]: split at
\* the loosest operator, the last one of its tier when the tier associates to
\* the left and the first one for '='.
RECURSIVE C9_Group(_, _, _)
C9_Group(ts, lo, hi) ==
    IF lo = hi
    THEN IF ts[lo].type = "IDENTIFIER" THEN Variable(ts[lo].value)
         ELSE Literal("int", ts[lo].value)
    ELSE LET ops == { i \in (lo + 1)..(hi - 1) : (i - lo) % 2 = 1 }
             loosest == CHOOSE i \in ops : \A j \in ops : C9_Tier(ts[i].type) <= C9_Tier(ts[j].type)
             tier == C9_Tier(ts[loosest].type)
             same == { i \in ops : C9_Tier(ts[i].type) = tier }
             at == IF tier = 0
                   THEN CHOOSE i \in same : \A j \in same : i <= j
                   ELSE CHOOSE i \in same : \A j \in same : i >= j
         IN  Binary(C9_Group(ts, lo, at - 1), ts[at].type, C9_Group(ts, at + 1, hi))

\* C9: binary operators group by tier ('*' '/' over '+' '-' '^' over the
\* comparisons over '==' '!=' over '&&' over '||'), operators of one tier
\* associate to the left, and '=' is loosest and associates to the right: a
\* chain of operands and operators parses into exactly that tree (and is
\* rejected only when that tree puts a non-variable left of an '=').
C9_TiersAndAssociativity ==
    (C9_IsChain(parser.tokens) /\ ParseFinished)
        => LET g == C9_Group(parser.tokens, 1, Len(parser.tokens) - 2)
           IN  IF AssignTargetsOk(g)
               THEN /\ parseOut.status = "done"
                    /\ parseOut.statements = <<ExpressionStatement(g)>>
               ELSE parseOut.status = "error"

\* x + y * 4 has been parsed into x + (y * 4).
C9_Witness ==
    /\ parseOut.status = "done"
    /\ parseOut.statements =
          <<ExpressionStatement(
                Binary(Variable("x"), "PLUS",
                       Binary(Variable("y"), "MULTIPLY", Literal("int", "4"))))>>

\* Some complete statement of ss is followed on its line by another statement
\* (what follows a bare `return` on its line is that return's value).
C10_SecondOnSameLine(ss) ==
    \E k \in 1..(Len(ss) - 1) : ~ss[k].nl /\ ss[k].frag # <<T("RETURN")>>

\* C10: each simple statement must be terminated by a NEWLINE token; a token
\* sequence in which a second statement starts directly after a complete
\* statement, such as `print 1 print 2`, is rejected with a parse error.
C10_SameLineRejected ==
    \A ss \in StmtSeqs :
        (parser.tokens = StmtStream(ss) /\ C10_SecondOnSameLine(ss) /\ ParseFinished)
            => parseOut.status = "error"

(***************************************************************************)
(* SEMANTIC ANALYZER  (src/src/semantic_analyzer.cpp)                      *)
(* The chain of Scope objects from the global scope to current_scope is a  *)
(* sequence of symbol maps, innermost last.  A visitor takes the analyzer  *)
(* (scopes, in_function) and a node and returns the analyzer afterwards,   *)
(* or the SemanticError it throws (ok = FALSE and the message).            *)
(***************************************************************************)
Symbol(type, initialized, paramCount) ==
    [type |-> type, initialized |-> initialized, paramCount |-> paramCount]

\* Scope::define on the innermost scope
define(scopes, name, symbol) ==
    IF name \in DOMAIN Last(scopes) THEN scopes
    ELSE [scopes EXCEPT ![Len(scopes)] = (name :> symbol) @@ @]

\* A lookup that also finds the name in the enclosing scopes.
isDefined_in_chain(scopes, name) == \E i \in 1..Len(scopes) : name \in DOMAIN scopes[i]

\* Scope::isDefined on the innermost scope
isDefined(scopes, name) == name \in DOMAIN Last(scopes)

\* Scope::resolve: the position in the chain of the nearest scope that holds
\* name, 0 for nullptr.
RECURSIVE resolve(_, _)
resolve(scopes, name) ==
    IF scopes = <<>> THEN 0
    ELSE IF name \in DOMAIN Last(scopes) THEN Len(scopes)
    ELSE resolve(Front(scopes), name)

SemanticError(A, msg) == [A EXCEPT !.ok = FALSE, !.msg = msg]

enterScope(A) == [A EXCEPT !.scopes = Append(@, <<>>)]

exitScope(A) ==
    IF A.scopes = <<>>
    THEN SemanticError(A, "Internal error: Trying to exit non-existent scope")
    ELSE [A EXCEPT !.scopes = Front(@)]

\* symbol->initialized = true on the symbol that resolve found in scope i
mark_initialized(A, i, name) == [A EXCEPT !.scopes[i][name].initialized = TRUE]

builtin_convert == {"int", "float", "str", "bool"}

RECURSIVE visit_statement(_, _), visit_expression(_, _),
          visit_statements(_, _), visit_expressions(_, _)

\* for (const auto& e : list) visit(e);
visit_expressions(A, es) ==
    IF es = <<>> THEN A
    ELSE Then(visit_expression(A, Head(es)), LAMBDA B : visit_expressions(B, Tail(es)))

\* for (const auto& stmt : list) visit(stmt);
visit_statements(A, ss) ==
    IF ss = <<>> THEN A
    ELSE Then(visit_statement(A, Head(ss)), LAMBDA B : visit_statements(B, Tail(ss)))

visitBinaryExpression(A, expr) ==
    Then(visit_expressions(A, <<expr.left, expr.right>>), LAMBDA B :
        IF expr.op = "ASSIGN"
        THEN IF expr.left.kind = "Variable"
             THEN Bind(resolve(B.scopes, expr.left.name), LAMBDA symbol :
                      IF symbol = 0
                      THEN SemanticError(B, "Variable '" \o expr.left.name \o "' is not defined")
                      ELSE mark_initialized(B, symbol, expr.left.name))
             ELSE IF expr.left.kind = "ArrayAccess" THEN B
             ELSE SemanticError(B, "Invalid assignment target")
        ELSE B)

visitVariableExpression(A, expr) ==
    Bind(resolve(A.scopes, expr.name), LAMBDA symbol :
        IF symbol = 0
        THEN SemanticError(A, "Variable '" \o expr.name \o "' is not defined")
        ELSE IF ~A.scopes[symbol][expr.name].initialized
        THEN SemanticError(A, "Variable '" \o expr.name \o "' is not initialized")
        ELSE A)

\* A call that checks its arguments only.
visitCallExpression_unchecked(A, expr) == visit_expressions(A, expr.arguments)

visitCallExpression(A, expr) ==
    Then(IF expr.callee \in builtin_convert
         THEN IF Len(expr.arguments) # 1
              THEN SemanticError(A, "Built-in function '" \o expr.callee
                                        \o "' expects 1 argument, but got "
                                        \o ToString(Len(expr.arguments)))
              ELSE A
         ELSE Bind(resolve(A.scopes, expr.callee), LAMBDA symbol :
                  IF symbol = 0
                  THEN SemanticError(A, "Function '" \o expr.callee \o "' is not defined")
                  ELSE IF A.scopes[symbol][expr.callee].type # "FUNCTION"
                  THEN SemanticError(A, "'" \o expr.callee \o "' is not a function")
                  ELSE IF A.scopes[symbol][expr.callee].paramCount # Len(expr.arguments)
                  THEN SemanticError(A, "Function '" \o expr.callee \o "' expects "
                                            \o ToString(A.scopes[symbol][expr.callee].paramCount)
                                            \o " arguments, but got "
                                            \o ToString(Len(expr.arguments)))
                  ELSE A),
         LAMBDA B : visit_expressions(B, expr.arguments))

visitUnaryExpression(A, expr) == visit_expressions(A, <<expr.right>>)
visitLiteralExpression(A, expr) == A
visitArrayExpression(A, expr) == visit_expressions(A, expr.elements)
visitArrayAccessExpression(A, expr) == visit_expressions(A, <<expr.array, expr.index>>)
visitMemberAccessExpression(A, expr) == visit_expressions(A, <<expr.object>>)

visit_expression(A, expr) ==
    CASE expr.kind = "Binary" -> visitBinaryExpression(A, expr)
      [] expr.kind = "Unary" -> visitUnaryExpression(A, expr)
      [] expr.kind = "Literal" -> visitLiteralExpression(A, expr)
      [] expr.kind = "Variable" -> visitVariableExpression(A, expr)
      [] expr.kind = "Call" -> visitCallExpression(A, expr)
      [] expr.kind = "Array" -> visitArrayExpression(A, expr)
      [] expr.kind = "ArrayAccess" -> visitArrayAccessExpression(A, expr)
      [] expr.kind = "MemberAccess" -> visitMemberAccessExpression(A, expr)
      [] OTHER -> SemanticError(A, "Unknown expression type")

\* visit(node) when node is present, nothing for nullptr
visit_optional(A, expr) == IF expr # Null THEN visit_expressions(A, <<expr>>) ELSE A

visitVarDeclaration(A, stmt) ==
    IF isDefined(A.scopes, stmt.name)
    THEN SemanticError(A, "Variable '" \o stmt.name \o "' is already defined in this scope")
    ELSE Then(visit_optional(A, stmt.initializer), LAMBDA B :
             [B EXCEPT !.scopes =
                 define(@, stmt.name, Symbol("VARIABLE", stmt.initializer # Null, 0))])

\* The parameter loop of visitFunctionDeclaration
RECURSIVE define_parameters(_, _, _)
define_parameters(A, params, fname) ==
    IF params = <<>> THEN A
    ELSE IF isDefined(A.scopes, Head(params))
    THEN SemanticError(A, "Parameter '" \o Head(params)
                              \o "' is already defined in function '" \o fname \o "'")
    ELSE define_parameters(
             [A EXCEPT !.scopes = define(@, Head(params), Symbol("VARIABLE", TRUE, 0))],
             Tail(params), fname)

\* enterScope(); visit(body); exitScope();
visit_in_new_scope(A, body) ==
    Then(visit_statements(enterScope(A), <<body>>), LAMBDA B : exitScope(B))

visitFunctionDeclaration(A, stmt) ==
    IF isDefined(A.scopes, stmt.name)
    THEN SemanticError(A, "Function '" \o stmt.name \o "' is already defined in this scope")
    ELSE Then(define_parameters(
                  [enterScope([A EXCEPT !.scopes =
                                   define(@, stmt.name,
                                          Symbol("FUNCTION", TRUE, Len(stmt.parameters)))])
                      EXCEPT !.in_function = TRUE],
                  stmt.parameters, stmt.name), LAMBDA B :
         Then(visit_statements(B, <<stmt.body>>), LAMBDA C :
             exitScope([C EXCEPT !.in_function = A.in_function])))

visitIfStatement(A, stmt) ==
    Then(visit_expressions(A, <<stmt.condition>>), LAMBDA B :
    Then(visit_in_new_scope(B, stmt.then_branch), LAMBDA C :
        IF stmt.else_branch # Null THEN visit_in_new_scope(C, stmt.else_branch) ELSE C))

\* A `return` that is accepted wherever it stands.
visitReturnStatement_anywhere(A, stmt) == visit_optional(A, stmt.value)

visitReturnStatement(A, stmt) ==
    IF ~A.in_function THEN SemanticError(A, "Cannot return from outside a function")
    ELSE visit_optional(A, stmt.value)

\* An `input` that takes any name.
visitInputStatement_unchecked(A, stmt) == A

visitInputStatement(A, stmt) ==
    Bind(resolve(A.scopes, stmt.variable), LAMBDA symbol :
        IF symbol = 0
        THEN SemanticError(A, "Variable '" \o stmt.variable \o "' is not defined")
        ELSE mark_initialized(A, symbol, stmt.variable))

visitLoopInStatement(A, stmt) ==
    Then(visit_expressions(A, <<stmt.iterable>>), LAMBDA B :
    Then(visit_statements(
             [enterScope(B) EXCEPT !.scopes =
                 define(@, stmt.variable, Symbol("VARIABLE", TRUE, 0))],
             <<stmt.body>>), LAMBDA C :
        exitScope(C)))

visitExpressionStatement(A, stmt) == visit_expressions(A, <<stmt.expression>>)
visitPrintStatement(A, stmt) == visit_expressions(A, <<stmt.expression>>)
visitBlockStatement(A, stmt) == visit_statements(A, stmt.statements)

visitWhileStatement(A, stmt) ==
    Then(visit_expressions(A, <<stmt.condition>>), LAMBDA B :
        visit_in_new_scope(B, stmt.body))

visitLoopTimesStatement(A, stmt) ==
    Then(visit_expressions(A, <<stmt.count>>), LAMBDA B :
        visit_in_new_scope(B, stmt.body))

visit_statement(A, stmt) ==
    CASE stmt.kind = "VarDeclaration" -> visitVarDeclaration(A, stmt)
      [] stmt.kind = "FunctionDeclaration" -> visitFunctionDeclaration(A, stmt)
      [] stmt.kind = "ExpressionStatement" -> visitExpressionStatement(A, stmt)
      [] stmt.kind = "If" -> visitIfStatement(A, stmt)
      [] stmt.kind = "While" -> visitWhileStatement(A, stmt)
      [] stmt.kind = "Return" -> visitReturnStatement(A, stmt)
      [] stmt.kind = "Block" -> visitBlockStatement(A, stmt)
      [] stmt.kind = "Print" -> visitPrintStatement(A, stmt)
      [] stmt.kind = "Input" -> visitInputStatement(A, stmt)
      [] stmt.kind = "LoopIn" -> visitLoopInStatement(A, stmt)
      [] stmt.kind = "LoopTimes" -> visitLoopTimesStatement(A, stmt)
      [] OTHER -> SemanticError(A, "Unknown statement type")

\* SemanticAnalyzer::printSymbolTable: the lines it prints, as a set (the
\* symbols come in the order of an unordered_map).
printSymbolTable(A) ==
    IF A.scopes = <<>> THEN {"No symbol table available"}
    ELSE {"Symbol Table:"} \cup
         { "  " \o name \o ": " \o
               (IF Last(A.scopes)[name].type = "VARIABLE"
                THEN "VARIABLE" \o (IF ~Last(A.scopes)[name].initialized
                                    THEN " (uninitialized)" ELSE "")
                ELSE "FUNCTION (" \o ToString(Last(A.scopes)[name].paramCount)
                         \o " parameters)")
           : name \in DOMAIN Last(A.scopes) }

(***************************************************************************)
(* Analyzer inputs: programs of at most MaxProgram top-level statements    *)
(* over the variable x and the function f; a statement is a simple one or  *)
(* a compound one whose block holds a simple one.                          *)
(***************************************************************************)
MaxProgram == 2

Lit4 == Literal("int", "4")
LitTrue == Literal("bool", "true")
VarX == Variable("x")
AssignX == ExpressionStatement(Binary(VarX, "ASSIGN", Lit4))

SimpleStatements ==
    { VarDeclaration("x", Null),
      VarDeclaration("x", Lit4),
      AssignX,
      PrintStatement(VarX),
      InputStatement("x"),
      ExpressionStatement(Call("f", <<>>)),
      PrintStatement(Call("int", <<VarX>>)),
      ReturnStatement(VarX) }

CompoundStatements ==
    UNION { { IfStatement(LitTrue, BlockStatement(<<s>>), Null),
              LoopTimesStatement(Lit4, BlockStatement(<<s>>)),
              LoopInStatement("x", Array(<<Lit4>>), BlockStatement(<<s>>)),
              FunctionDeclaration("f", <<>>, BlockStatement(<<s>>)),
              FunctionDeclaration("f", <<"x">>, BlockStatement(<<s>>)) }
            : s \in SimpleStatements }

\* Programs with an else branch, an `else if`, a while loop, nested scopes and
\* an assignment followed by a read.
ExtraPrograms ==
    { <<VarDeclaration("x", Null), AssignX, PrintStatement(VarX)>>,
      <<VarDeclaration("x", Null), InputStatement("x"), PrintStatement(VarX)>>,
      <<IfStatement(LitTrue, BlockStatement(<<VarDeclaration("x", Lit4)>>),
                    BlockStatement(<<PrintStatement(VarX)>>))>>,
      <<IfStatement(LitTrue, BlockStatement(<<VarDeclaration("x", Lit4)>>),
                    IfStatement(LitTrue, BlockStatement(<<InputStatement("x")>>), Null))>>,
      <<VarDeclaration("x", Lit4),
        WhileStatement(VarX, BlockStatement(<<
            IfStatement(VarX, BlockStatement(<<AssignX>>), Null)>>))>>,
      <<WhileStatement(LitTrue, BlockStatement(<<
            FunctionDeclaration("f", <<"x">>, BlockStatement(<<ReturnStatement(VarX)>>)),
            PrintStatement(Call("f", <<VarX>>))>>))>>,
      <<PrintStatement(Binary(Lit4, "PLUS", Unary("MINUS", ArrayAccess(VarX, Lit4))))>>,
      <<ExpressionStatement(Binary(ArrayAccess(VarX, Lit4), "ASSIGN",
                                   MemberAccess(VarX, "length")))>> }

Lit4Block == BlockStatement(<<PrintStatement(Lit4)>>)
ReturnBlock == BlockStatement(<<ReturnStatement(Lit4)>>)

\* Programs about declarations and scopes: a repeated parameter, a variable
\* named like a function of the same scope, a parameter named like its
\* function, and redeclarations of an outer x in while, if/else and loop bodies.
DeclarationPrograms ==
    { <<FunctionDeclaration("f", <<"x", "x">>, Lit4Block)>>,
      <<FunctionDeclaration("f", <<>>, Lit4Block), VarDeclaration("f", Lit4)>>,
      <<VarDeclaration("x", Lit4), FunctionDeclaration("x", <<>>, Lit4Block)>>,
      <<FunctionDeclaration("f", <<"f">>, BlockStatement(<<PrintStatement(Variable("f"))>>))>>,
      <<VarDeclaration("x", Lit4),
        WhileStatement(VarX, BlockStatement(<<VarDeclaration("x", Lit4)>>))>>,
      <<VarDeclaration("x", Lit4),
        IfStatement(VarX, BlockStatement(<<VarDeclaration("x", Lit4)>>),
                    BlockStatement(<<VarDeclaration("x", Null)>>))>>,
      <<LoopInStatement("x", Array(<<Lit4>>),
                        BlockStatement(<<LoopTimesStatement(VarX,
                            BlockStatement(<<VarDeclaration("x", Lit4)>>))>>))>>,
      <<FunctionDeclaration("f", <<"x">>,
            BlockStatement(<<IfStatement(VarX, BlockStatement(<<VarDeclaration("x", Lit4),
                                                                 VarDeclaration("x", Lit4)>>),
                                         Null)>>))>> }

\* Programs about `return`: at top level after a function declaration, in an
\* if at top level, in blocks nested in a function body, after a function
\* declared inside the body, and without a value.
ReturnPrograms ==
    { <<FunctionDeclaration("f", <<>>, ReturnBlock), ReturnStatement(Lit4)>>,
      <<FunctionDeclaration("f", <<>>, ReturnBlock), ReturnStatement(Null)>>,
      <<IfStatement(LitTrue, ReturnBlock, Null)>>,
      <<FunctionDeclaration("f", <<>>, ReturnBlock),
        WhileStatement(LitTrue, ReturnBlock)>>,
      <<FunctionDeclaration("f", <<>>,
            BlockStatement(<<IfStatement(LitTrue,
                BlockStatement(<<LoopTimesStatement(Lit4, ReturnBlock)>>),
                BlockStatement(<<WhileStatement(LitTrue, ReturnBlock)>>))>>))>>,
      <<FunctionDeclaration("f", <<>>,
            BlockStatement(<<FunctionDeclaration("f", <<>>, ReturnBlock),
                             ReturnStatement(Null)>>))>>,
      <<FunctionDeclaration("f", <<"x">>,
            BlockStatement(<<LoopInStatement("x", Array(<<VarX>>), ReturnBlock)>>)),
        PrintStatement(Lit4)>> }

\* Programs about calls: a function that calls itself, a call of a variable,
\* conversions with no, one and two arguments, too many arguments, a function
\* hidden by a variable of an inner scope, and calls as arguments.
CallPrograms ==
    { <<FunctionDeclaration("f", <<"x">>,
            BlockStatement(<<ReturnStatement(Call("f", <<VarX>>))>>))>>,
      <<FunctionDeclaration("f", <<"x">>,
            BlockStatement(<<ReturnStatement(Call("f", <<>>))>>))>>,
      <<VarDeclaration("x", Lit4), PrintStatement(Call("x", <<>>))>>,
      <<PrintStatement(Call("int", <<>>))>>,
      <<PrintStatement(Call("float", <<Lit4, Lit4>>))>>,
      <<PrintStatement(Call("str", <<Call("bool", <<Call("float", <<Lit4>>)>>)>>))>>,
      <<FunctionDeclaration("f", <<"x">>, Lit4Block),
        PrintStatement(Call("f", <<Lit4, Lit4>>))>>,
      <<FunctionDeclaration("f", <<"x">>, Lit4Block),
        PrintStatement(Call("f", <<Call("f", <<Lit4>>)>>))>>,
      <<FunctionDeclaration("f", <<"x">>, Lit4Block),
        PrintStatement(Call("f", <<Call("str", <<>>)>>))>>,
      <<FunctionDeclaration("f", <<>>, Lit4Block),
        IfStatement(LitTrue, BlockStatement(<<VarDeclaration("f", Lit4),
                                              PrintStatement(Call("f", <<>>))>>), Null)>>,
      <<FunctionDeclaration("f", <<>>, Lit4Block),
        WhileStatement(Call("f", <<>>),
            BlockStatement(<<FunctionDeclaration("f", <<"x">>, Lit4Block),
                             PrintStatement(Call("f", <<Lit4>>))>>)),
        PrintStatement(Call("f", <<>>))>> }

Programs(maxProgram) ==
    SeqsUpTo(SimpleStatements \cup CompoundStatements, maxProgram)
        \cup ExtraPrograms \cup DeclarationPrograms \cup ReturnPrograms \cup CallPrograms

InitSem ==
    /\ analyzer = [scopes |-> <<<<>>>>, in_function |-> FALSE]
    /\ \E p \in Programs(MaxProgram) :
          semOut = [program |-> p, next |-> 1, status |-> "running", msg |-> ""]
    /\ IdleLex
    /\ IdleParse
    /\ IdleIR

\* SemanticAnalyzer::visit(Program), one iteration of its loop; a SemanticError
\* reaches the catch block of analyze, which deletes the scopes and rethrows.
VisitProgramStatement ==
    /\ semOut.status = "running"
    /\ semOut.next <= Len(semOut.program)
    /\ LET r == visit_statement([scopes |-> analyzer.scopes,
                                 in_function |-> analyzer.in_function,
                                 ok |-> TRUE, msg |-> ""],
                                semOut.program[semOut.next])
       IN  IF r.ok
           THEN /\ analyzer' = [scopes |-> r.scopes, in_function |-> r.in_function]
                /\ semOut' = [semOut EXCEPT !.next = @ + 1]
           ELSE /\ analyzer' = [scopes |-> <<>>, in_function |-> r.in_function]
                /\ semOut' = [semOut EXCEPT !.status = "error", !.msg = r.msg]
    /\ UNCHANGED <<lexVars, parseVars, irVars>>

\* analyze after visit(program) has returned: the scopes are deleted.
AnalyzeReturn ==
    /\ semOut.status = "running"
    /\ semOut.next > Len(semOut.program)
    /\ analyzer' = [analyzer EXCEPT !.scopes = <<>>]
    /\ semOut' = [semOut EXCEPT !.status = "ok"]
    /\ UNCHANGED <<lexVars, parseVars, irVars>>

NextSem == VisitProgramStatement \/ AnalyzeReturn

SpecSem == InitSem /\ [][NextSem]_vars

(***************************************************************************)
(* Properties of the semantic analyzer                                     *)
(***************************************************************************)
AnalyzeFinished == semOut.status \in {"ok", "error"}

\* The names a statement adds to the scope it stands in.
Declared(s) ==
    IF s.kind \in {"VarDeclaration", "FunctionDeclaration"} THEN {s.name} ELSE {}

\* Some use below the node names something that is not among the visible
\* names V: a variable read or assigned, an `input` target, or a callee other
\* than the conversions.
RECURSIVE UndefinedUseE(_, _), UndefinedUseS(_, _), UndefinedUseSeq(_, _)
UndefinedUseE(e, V) ==
    CASE e.kind \in {"null", "Literal"} -> FALSE
      [] e.kind = "Variable" -> e.name \notin V
      [] e.kind = "Binary" -> UndefinedUseE(e.left, V) \/ UndefinedUseE(e.right, V)
      [] e.kind = "Unary" -> UndefinedUseE(e.right, V)
      [] e.kind = "Call" ->
            \/ e.callee \notin V \cup {"int", "float", "str", "bool"}
            \/ \E k \in 1..Len(e.arguments) : UndefinedUseE(e.arguments[k], V)
      [] e.kind = "Array" -> \E k \in 1..Len(e.elements) : UndefinedUseE(e.elements[k], V)
      [] e.kind = "ArrayAccess" -> UndefinedUseE(e.array, V) \/ UndefinedUseE(e.index, V)
      [] e.kind = "MemberAccess" -> UndefinedUseE(e.object, V)

UndefinedUseSeq(ss, V) ==
    /\ ss # <<>>
    /\ \/ UndefinedUseS(Head(ss), V)
       \/ UndefinedUseSeq(Tail(ss), V \cup Declared(Head(ss)))

UndefinedUseS(s, V) ==
    CASE s.kind = "VarDeclaration" -> UndefinedUseE(s.initializer, V)
      [] s.kind = "FunctionDeclaration" ->
            UndefinedUseS(s.body, V \cup {s.name}
                                    \cup { s.parameters[k] : k \in 1..Len(s.parameters) })
      [] s.kind \in {"ExpressionStatement", "Print"} -> UndefinedUseE(s.expression, V)
      [] s.kind = "Input" -> s.variable \notin V
      [] s.kind = "Return" -> UndefinedUseE(s.value, V)
      [] s.kind = "Block" -> UndefinedUseSeq(s.statements, V)
      [] s.kind = "If" ->
            \/ UndefinedUseE(s.condition, V)
            \/ UndefinedUseS(s.then_branch, V)
            \/ s.else_branch # Null /\ UndefinedUseS(s.else_branch, V)
      [] s.kind = "While" -> UndefinedUseE(s.condition, V) \/ UndefinedUseS(s.body, V)
      [] s.kind = "LoopTimes" -> UndefinedUseE(s.count, V) \/ UndefinedUseS(s.body, V)
      [] s.kind = "LoopIn" ->
            UndefinedUseE(s.iterable, V) \/ UndefinedUseS(s.body, V \cup {s.variable})

\* C4: analyze fails with a SemanticError for every program that contains a
\* variable read, an assignment to a variable, an `input` target or a call of
\* a callee other than int/float/str/bool whose name is not defined in the
\* current or an enclosing scope at the point of use.
C4_UndefinedNameRejected ==
    (AnalyzeFinished /\ UndefinedUseSeq(semOut.program, {}))
        => semOut.status = "error"

\* analyze has failed on a read of x that follows the if block which
\* declared x.
C4_Witness ==
    /\ semOut.program =
          <<IfStatement(LitTrue, BlockStatement(<<VarDeclaration("x", Lit4)>>), Null),
            PrintStatement(VarX)>>
    /\ semOut.status = "error"
    /\ semOut.msg = "Variable 'x' is not defined"

\* `var x` followed by `x = 4`, without and with a read of x after it
C6_Programs ==
    { <<VarDeclaration("x", Null), AssignX>>,
      <<VarDeclaration("x", Null), AssignX, PrintStatement(VarX)>> }

\* C6: after `var x` with no initializer, a later assignment `x = e` is
\* accepted by the analyzer and marks x initialized, so that reads of x after
\* the assignment pass.
C6_AssignmentInitializes ==
    (semOut.program \in C6_Programs /\ AnalyzeFinished) => semOut.status = "ok"

\* The parameter list names some parameter twice.
RepeatedParameter(params) ==
    \E i, j \in 1..Len(params) : i < j /\ params[i] = params[j]

\* Some declaration below the node repeats a name of the scope it stands in,
\* S being the names that scope holds when the node is reached.  A function
\* body starts a scope that holds the parameters, a `loop in` body one that
\* holds the loop variable, every other body an empty one.
RECURSIVE RedeclaresS(_, _), RedeclaresSeq(_, _)
RedeclaresSeq(ss, S) ==
    /\ ss # <<>>
    /\ \/ RedeclaresS(Head(ss), S)
       \/ RedeclaresSeq(Tail(ss), S \cup Declared(Head(ss)))

RedeclaresS(s, S) ==
    CASE s.kind = "VarDeclaration" -> s.name \in S
      [] s.kind = "FunctionDeclaration" ->
            \/ s.name \in S
            \/ RepeatedParameter(s.parameters)
            \/ RedeclaresS(s.body, { s.parameters[k] : k \in 1..Len(s.parameters) })
      [] s.kind = "Block" -> RedeclaresSeq(s.statements, S)
      [] s.kind = "If" ->
            \/ RedeclaresS(s.then_branch, {})
            \/ s.else_branch # Null /\ RedeclaresS(s.else_branch, {})
      [] s.kind \in {"While", "LoopTimes"} -> RedeclaresS(s.body, {})
      [] s.kind = "LoopIn" -> RedeclaresS(s.body, {s.variable})
      [] OTHER -> FALSE

SemNames == {"x", "f"}

\* The messages of the three redeclaration errors
RedeclarationMessages ==
    { "Variable '" \o n \o "' is already defined in this scope" : n \in SemNames }
    \cup { "Function '" \o n \o "' is already defined in this scope" : n \in SemNames }
    \cup { "Parameter '" \o n \o "' is already defined in function '" \o g \o "'"
             : n \in SemNames, g \in SemNames }

\* C11: a program that declares a variable or function under a name its
\* scope already holds, or a parameter that repeats an earlier parameter, (a
\* `var` of a function body that repeats a parameter included) fails with a
\* SemanticError; a redeclaration error is raised for no other program, so a
\* declaration that only repeats a name of an enclosing scope is accepted.
C11_RedeclarationRejected ==
    AnalyzeFinished =>
        /\ RedeclaresSeq(semOut.program, {}) => semOut.status = "error"
        /\ (semOut.status = "error" /\ semOut.msg \in RedeclarationMessages)
               => RedeclaresSeq(semOut.program, {})

\* analyze has rejected the `var x` in the body of f(x) as a redeclaration.
C11_Witness ==
    /\ semOut.program =
          <<FunctionDeclaration("f", <<"x">>,
                                BlockStatement(<<VarDeclaration("x", Lit4)>>))>>
    /\ semOut.status = "error"
    /\ semOut.msg = "Variable 'x' is already defined in this scope"

\* analyze has accepted the program that declares x again in both branches of
\* an if that follows `var x = 4`.
C11_ShadowingAccepted ==
    /\ semOut.program =
          <<VarDeclaration("x", Lit4),
            IfStatement(VarX, BlockStatement(<<VarDeclaration("x", Lit4)>>),
                        BlockStatement(<<VarDeclaration("x", Null)>>))>>
    /\ semOut.status = "ok"

\* Some `return` below the node is not inside a function body, inside being
\* whether the node itself is.
RECURSIVE ReturnOutsideS(_, _)
ReturnOutsideS(s, inside) ==
    CASE s.kind = "Return" -> ~inside
      [] s.kind = "FunctionDeclaration" -> ReturnOutsideS(s.body, TRUE)
      [] s.kind = "Block" ->
            \E k \in 1..Len(s.statements) : ReturnOutsideS(s.statements[k], inside)
      [] s.kind = "If" ->
            \/ ReturnOutsideS(s.then_branch, inside)
            \/ s.else_branch # Null /\ ReturnOutsideS(s.else_branch, inside)
      [] s.kind \in {"While", "LoopTimes", "LoopIn"} -> ReturnOutsideS(s.body, inside)
      [] OTHER -> FALSE

\* C12: analyze rejects a `return` exactly when it is not lexically inside a
\* function body: a program with a `return` outside every function body
\* (after a function declaration included) fails, and the error "Cannot
\* return from outside a function" is raised for no program whose returns all
\* stand in function bodies, nested if/while/loop blocks included; between
\* two top-level statements in_function is false again.
C12_ReturnOnlyInFunction ==
    /\ semOut.status = "running" => ~analyzer.in_function
    /\ AnalyzeFinished =>
        /\ ReturnOutsideS(BlockStatement(semOut.program), FALSE)
               => semOut.status = "error"
        /\ (semOut.status = "error"
               /\ semOut.msg = "Cannot return from outside a function")
               => ReturnOutsideS(BlockStatement(semOut.program), FALSE)

\* analyze has rejected the top-level `return 4` that follows the declaration
\* of f.
C12_Witness ==
    /\ semOut.program =
          <<FunctionDeclaration("f", <<>>, ReturnBlock), ReturnStatement(Lit4)>>
    /\ semOut.status = "error"
    /\ semOut.msg = "Cannot return from outside a function"

\* analyze has accepted returns in if, while and loop blocks nested in the
\* body of f.
C12_NestedAccepted ==
    /\ semOut.program =
          <<FunctionDeclaration("f", <<>>,
                BlockStatement(<<IfStatement(LitTrue,
                    BlockStatement(<<LoopTimesStatement(Lit4, ReturnBlock)>>),
                    BlockStatement(<<WhileStatement(LitTrue, ReturnBlock)>>))>>))>>
    /\ semOut.status = "ok"

\* The visible names as a map: -1 for a variable, the parameter count for a
\* function; a declaration hides what an enclosing scope says of its name.
Bound(V, name, what) == (name :> what) @@ V

RECURSIVE BindAll(_, _)
BindAll(V, names) ==
    IF names = <<>> THEN V ELSE BindAll(Bound(V, Head(names), -1), Tail(names))

DeclaredAs(V, s) ==
    CASE s.kind = "VarDeclaration" -> Bound(V, s.name, -1)
      [] s.kind = "FunctionDeclaration" -> Bound(V, s.name, Len(s.parameters))
      [] OTHER -> V

\* Some call below the node names a conversion with other than one argument,
\* or a callee that is not visible as a function of as many parameters as the
\* call has arguments.
RECURSIVE WrongCallE(_, _), WrongCallS(_, _), WrongCallSeq(_, _)
WrongCallE(e, V) ==
    CASE e.kind = "Call" ->
            \/ IF e.callee \in {"int", "float", "str", "bool"}
               THEN Len(e.arguments) # 1
               ELSE \/ e.callee \notin DOMAIN V
                    \/ V[e.callee] # Len(e.arguments)
            \/ \E k \in 1..Len(e.arguments) : WrongCallE(e.arguments[k], V)
      [] e.kind = "Binary" -> WrongCallE(e.left, V) \/ WrongCallE(e.right, V)
      [] e.kind = "Unary" -> WrongCallE(e.right, V)
      [] e.kind = "Array" -> \E k \in 1..Len(e.elements) : WrongCallE(e.elements[k], V)
      [] e.kind = "ArrayAccess" -> WrongCallE(e.array, V) \/ WrongCallE(e.index, V)
      [] e.kind = "MemberAccess" -> WrongCallE(e.object, V)
      [] OTHER -> FALSE

WrongCallSeq(ss, V) ==
    /\ ss # <<>>
    /\ \/ WrongCallS(Head(ss), V)
       \/ WrongCallSeq(Tail(ss), DeclaredAs(V, Head(ss)))

WrongCallS(s, V) ==
    CASE s.kind = "VarDeclaration" -> WrongCallE(s.initializer, V)
      [] s.kind = "FunctionDeclaration" ->
            WrongCallS(s.body, BindAll(DeclaredAs(V, s), s.parameters))
      [] s.kind \in {"ExpressionStatement", "Print"} -> WrongCallE(s.expression, V)
      [] s.kind = "Return" -> WrongCallE(s.value, V)
      [] s.kind = "Block" -> WrongCallSeq(s.statements, V)
      [] s.kind = "If" ->
            \/ WrongCallE(s.condition, V)
            \/ WrongCallS(s.then_branch, V)
            \/ s.else_branch # Null /\ WrongCallS(s.else_branch, V)
      [] s.kind = "While" -> WrongCallE(s.condition, V) \/ WrongCallS(s.body, V)
      [] s.kind = "LoopTimes" -> WrongCallE(s.count, V) \/ WrongCallS(s.body, V)
      [] s.kind = "LoopIn" ->
            WrongCallE(s.iterable, V) \/ WrongCallS(s.body, Bound(V, s.variable, -1))
      [] OTHER -> FALSE

\* The messages of the four errors of visitCallExpression
CallMessages ==
    { "Function '" \o n \o "' is not defined" : n \in SemNames }
    \cup { "'" \o n \o "' is not a function" : n \in SemNames }
    \cup { "Function '" \o n \o "' expects " \o ToString(k) \o " arguments, but got "
               \o ToString(m) : n \in SemNames, k \in 0..2, m \in 0..2 }
    \cup { "Built-in function '" \o n \o "' expects 1 argument, but got " \o ToString(m)
               : n \in {"int", "float", "str", "bool"}, m \in 0..2 }

\* C13: analyze fails for every program with a call whose callee is not int,
\* float, str or bool and does not resolve through the scope chain to a
\* function symbol with as many parameters as the call has arguments (a call
\* before the declaration included), and for every program with a call of
\* int, float, str or bool that has not exactly one argument; a call error is
\* raised for no other program, so a function may call itself in its body.
C13_CallsChecked ==
    AnalyzeFinished =>
        /\ WrongCallSeq(semOut.program, <<>>) => semOut.status = "error"
        /\ (semOut.status = "error" /\ semOut.msg \in CallMessages)
               => WrongCallSeq(semOut.program, <<>>)

\* analyze has rejected f(4, 4) after the declaration of f(x).
C13_Witness ==
    /\ semOut.program =
          <<FunctionDeclaration("f", <<"x">>, Lit4Block),
            PrintStatement(Call("f", <<Lit4, Lit4>>))>>
    /\ semOut.status = "error"
    /\ semOut.msg = "Function 'f' expects 1 arguments, but got 2"

\* analyze has accepted the f(x) that returns f(x).
C13_RecursionAccepted ==
    /\ semOut.program =
          <<FunctionDeclaration("f", <<"x">>,
                BlockStatement(<<ReturnStatement(Call("f", <<VarX>>))>>))>>
    /\ semOut.status = "ok"

\* C19: when analyze has returned or has raised a SemanticError (one raised
\* inside a function body included), in_function is false and no scope that
\* the walk opened for a function, branch or loop body is left on the stack.
C19_NoStateLeaks ==
    AnalyzeFinished => (~analyzer.in_function /\ Len(analyzer.scopes) <= 1)

\* The names the program declares at top level
GlobalNames(program) == UNION { Declared(program[k]) : k \in 1..Len(program) }

\* C20: the global scope is never closed: between two top-level statements of
\* the walk it is the only scope, and after analyze has returned it is still
\* the current scope, so that printSymbolTable lists every global symbol.
C20_GlobalScopeKept ==
    /\ semOut.status = "running" => Len(analyzer.scopes) = 1
    /\ semOut.status = "ok" =>
          /\ Len(analyzer.scopes) = 1
          /\ "Symbol Table:" \in printSymbolTable(analyzer)
          /\ \A name \in GlobalNames(semOut.program) :
                 \E line \in printSymbolTable(analyzer) :
                     \E rest \in {"VARIABLE", "VARIABLE (uninitialized)",
                                  "FUNCTION (0 parameters)", "FUNCTION (1 parameters)",
                                  "FUNCTION (2 parameters)"} :
                         line = "  " \o name \o ": " \o rest

(***************************************************************************)
(* IR GENERATOR  (src/src/ir_generator.cpp).  A method takes the generator *)
(* G and returns it as the method leaves it; result is the std::string the *)
(* method returns, ok is FALSE once the compiler has aborted.              *)
(***************************************************************************)
Range(s) == { s[i] : i \in DOMAIN s }

\* currentFunction-> : the dereference the build aborts on when it dangles
currentFunction_deref(G) ==
    IF dangling(G) /\ G.build.stale = "crash" THEN [G EXCEPT !.ok = FALSE] ELSE G

\* *currentFunction
current(G) == G.heap[G.currentFunction.buffer][G.currentFunction.index]

generateTemp(G) ==
    [G EXCEPT !.result = "t" \o ToString(G.tempCounter), !.tempCounter = @ + 1]

\* currentFunction->generateLabel()
generateLabel(G) ==
    Then(currentFunction_deref(G), LAMBDA H :
        [H EXCEPT !.result = "L" \o ToString(current(H).labelCounter),
                  !.heap[H.currentFunction.buffer][H.currentFunction.index].labelCounter = @ + 1])

emit(G, instruction) ==
    Then(currentFunction_deref(G), LAMBDA H :
        [H EXCEPT !.heap[H.currentFunction.buffer][H.currentFunction.index].instructions =
                      Append(@, instruction)])

RECURSIVE emit_each(_, _)
\* consecutive emit calls
emit_each(G, instructions) ==
    IF instructions = <<>> THEN G
    ELSE Then(emit(G, Head(instructions)), LAMBDA H : emit_each(H, Tail(instructions)))

enterFunction(G, name, params) ==
    Bind(push_back(G, IRFunction(name, params)), LAMBDA H :
        [H EXCEPT !.currentFunction = back(H), !.tempCounter = 0, !.variables = {}])

\* return value;
returning(G, value) == IF G.ok THEN [G EXCEPT !.result = value] ELSE G

\* std::to_string(double) prints six decimals.
to_string_double(text) ==
    CASE text = "1.5" -> "1.500000"
      [] text = "2.0" -> "2.000000"
      [] text = "0.25" -> "0.250000"
      [] OTHER -> text \o "000000"

\* the std::string visitLiteralExpression makes of the literal's value
literal_value(expr) ==
    CASE expr.type = "int" -> expr.value
      [] expr.type = "double" -> to_string_double(expr.value)
      [] expr.type = "bool" -> IF expr.value = "true" THEN "true" ELSE "false"
      [] OTHER -> "\"" \o expr.value \o "\""

binary_operator(op) ==
    CASE op = "PLUS" -> "+"
      [] op = "MINUS" -> "-"
      [] op = "MULTIPLY" -> "*"
      [] op = "DIVIDE" -> "/"
      [] op = "CONCAT" -> "^"
      [] op = "EQUAL" -> "=="
      [] op = "NOT_EQUAL" -> "!="
      [] op = "LESS" -> "<"
      [] op = "LESS_EQUAL" -> "<="
      [] op = "GREATER" -> ">"
      [] op = "GREATER_EQUAL" -> ">="
      [] op = "AND" -> "&&"
      [] op = "OR" -> "||"
      [] OTHER -> "?"

unary_operator(op) ==
    CASE op = "MINUS" -> "-"
      [] op = "NOT" -> "!"
      [] OTHER -> "?"

RECURSIVE join(_)
\* the values joined with ", "
join(values) ==
    IF values = <<>> THEN ""
    ELSE IF Len(values) = 1 THEN values[1]
    ELSE values[1] \o ", " \o join(Tail(values))

RECURSIVE ir_visit_statement(_, _), ir_visit_expression(_, _),
          ir_visit_statements(_, _), ir_visit_values(_, _, _)

\* for (const auto& s : list) visit(s);
ir_visit_statements(G, ss) ==
    IF ss = <<>> THEN G
    ELSE Then(ir_visit_statement(G, Head(ss)), LAMBDA H : ir_visit_statements(H, Tail(ss)))

\* for (const auto& e : list) values.push_back(visit(e)); result is values
ir_visit_values(G, es, values) ==
    IF es = <<>> THEN returning(G, values)
    ELSE Then(ir_visit_expression(G, Head(es)), LAMBDA H :
             ir_visit_values(H, Tail(es), Append(values, H.result)))

ir_visitVarDeclaration(G, stmt) ==
    Then(IF stmt.initializer # Null
         THEN Then(ir_visit_expression(G, stmt.initializer), LAMBDA H :
                  emit(H, IRInstruction("STORE_VAR", <<stmt.name, H.result>>)))
         ELSE G,
         LAMBDA H : [H EXCEPT !.variables = @ \cup {stmt.name}])

ir_visitFunctionDeclaration(G, stmt) ==
    LET previousFunction == G.currentFunction
    IN  Then(enterFunction(G, stmt.name, stmt.parameters), LAMBDA H1 :
        Then(ir_visit_statement([H1 EXCEPT !.variables = @ \cup Range(stmt.parameters)],
                                stmt.body), LAMBDA H2 :
        Then(currentFunction_deref(H2), LAMBDA H3 :
        Then(IF current(H3).instructions = <<>>
                \/ Last(current(H3).instructions).opcode # "RETURN"
             THEN emit(H3, IRInstruction("RETURN", <<>>))
             ELSE H3, LAMBDA H4 :
        [H4 EXCEPT !.currentFunction = previousFunction]))))

ir_visitExpressionStatement(G, stmt) == ir_visit_expression(G, stmt.expression)

ir_visitIfStatement(G, stmt) ==
    Then(ir_visit_expression(G, stmt.condition), LAMBDA condition :
    Then(generateLabel(condition), LAMBDA elseLabel :
    Then(generateLabel(elseLabel), LAMBDA endLabel :
    Then(emit(endLabel, IRInstruction("JUMP_IF_FALSE",
                                      <<condition.result, elseLabel.result>>)), LAMBDA H1 :
    Then(ir_visit_statement(H1, stmt.then_branch), LAMBDA H2 :
    Then(emit_each(H2, <<IRInstruction("JUMP", <<endLabel.result>>),
                         IRInstruction("LABEL", <<elseLabel.result>>)>>), LAMBDA H3 :
    Then(IF stmt.else_branch # Null THEN ir_visit_statement(H3, stmt.else_branch) ELSE H3,
         LAMBDA H4 :
    emit(H4, IRInstruction("LABEL", <<endLabel.result>>)))))))))

ir_visitWhileStatement(G, stmt) ==
    Then(generateLabel(G), LAMBDA loopLabel :
    Then(generateLabel(loopLabel), LAMBDA endLabel :
    Then(emit(endLabel, IRInstruction("LABEL", <<loopLabel.result>>)), LAMBDA H1 :
    Then(ir_visit_expression(H1, stmt.condition), LAMBDA condition :
    Then(emit(condition, IRInstruction("JUMP_IF_FALSE",
                                       <<condition.result, endLabel.result>>)), LAMBDA H2 :
    Then(ir_visit_statement(H2, stmt.body), LAMBDA H3 :
    emit_each(H3, <<IRInstruction("JUMP", <<loopLabel.result>>),
                    IRInstruction("LABEL", <<endLabel.result>>)>>)))))))

ir_visitReturnStatement(G, stmt) ==
    IF stmt.value # Null
    THEN Then(ir_visit_expression(G, stmt.value), LAMBDA value :
             emit(value, IRInstruction("RETURN", <<value.result>>)))
    ELSE emit(G, IRInstruction("RETURN", <<>>))

ir_visitBlockStatement(G, stmt) == ir_visit_statements(G, stmt.statements)

ir_visitPrintStatement(G, stmt) ==
    Then(ir_visit_expression(G, stmt.expression), LAMBDA value :
        emit(value, IRInstruction("PRINT", <<value.result>>)))

ir_visitInputStatement(G, stmt) ==
    Then(emit(G, IRInstruction("INPUT", <<stmt.variable>>)), LAMBDA H :
        [H EXCEPT !.variables = @ \cup {stmt.variable}])

ir_visitLoopInStatement(G, stmt) ==
    Then(ir_visit_expression(G, stmt.iterable), LAMBDA iterable :
    Bind(generateTemp(iterable), LAMBDA indexVar :
    Then(generateLabel(indexVar), LAMBDA loopLabel :
    Then(generateLabel(loopLabel), LAMBDA endLabel :
    Then(emit_each(endLabel, <<IRInstruction("LOAD_CONST", <<indexVar.result, "0">>),
                               IRInstruction("LABEL", <<loopLabel.result>>)>>), LAMBDA H1 :
    Bind(generateTemp(H1), LAMBDA lengthTemp :
    Bind(generateTemp(lengthTemp), LAMBDA conditionTemp :
    Then(emit_each(conditionTemp,
            <<IRInstruction("MEMBER_GET", <<lengthTemp.result, iterable.result, "length">>),
              IRInstruction("BINARY_OP", <<conditionTemp.result, indexVar.result, "<",
                                           lengthTemp.result>>),
              IRInstruction("JUMP_IF_FALSE", <<conditionTemp.result, endLabel.result>>)>>),
         LAMBDA H2 :
    Bind(generateTemp(H2), LAMBDA itemTemp :
    Then(emit_each(itemTemp,
            <<IRInstruction("ARRAY_GET", <<itemTemp.result, iterable.result, indexVar.result>>),
              IRInstruction("STORE_VAR", <<stmt.variable, itemTemp.result>>)>>), LAMBDA H3 :
    Then(ir_visit_statement(H3, stmt.body), LAMBDA H4 :
    Bind(generateTemp(H4), LAMBDA nextIndexTemp :
    emit_each(nextIndexTemp,
            <<IRInstruction("BINARY_OP", <<nextIndexTemp.result, indexVar.result, "+", "1">>),
              IRInstruction("STORE_VAR", <<indexVar.result, nextIndexTemp.result>>),
              IRInstruction("JUMP", <<loopLabel.result>>),
              IRInstruction("LABEL", <<endLabel.result>>)>>)))))))))))))

ir_visitLoopTimesStatement(G, stmt) ==
    Then(ir_visit_expression(G, stmt.count), LAMBDA count :
    Bind(generateTemp(count), LAMBDA indexVar :
    Then(generateLabel(indexVar), LAMBDA loopLabel :
    Then(generateLabel(loopLabel), LAMBDA endLabel :
    Then(emit_each(endLabel, <<IRInstruction("LOAD_CONST", <<indexVar.result, "0">>),
                               IRInstruction("LABEL", <<loopLabel.result>>)>>), LAMBDA H1 :
    Bind(generateTemp(H1), LAMBDA conditionTemp :
    Then(emit_each(conditionTemp,
            <<IRInstruction("BINARY_OP", <<conditionTemp.result, indexVar.result, "<",
                                           count.result>>),
              IRInstruction("JUMP_IF_FALSE", <<conditionTemp.result, endLabel.result>>)>>),
         LAMBDA H2 :
    Then(ir_visit_statement(H2, stmt.body), LAMBDA H3 :
    Bind(generateTemp(H3), LAMBDA nextIndexTemp :
    emit_each(nextIndexTemp,
            <<IRInstruction("BINARY_OP", <<nextIndexTemp.result, indexVar.result, "+", "1">>),
              IRInstruction("STORE_VAR", <<indexVar.result, nextIndexTemp.result>>),
              IRInstruction("JUMP", <<loopLabel.result>>),
              IRInstruction("LABEL", <<endLabel.result>>)>>))))))))))

ir_visitBinaryExpression(G, expr) ==
    Then(ir_visit_expression(G, expr.left), LAMBDA left :
    Then(ir_visit_expression(left, expr.right), LAMBDA right :
    Bind(generateTemp(right), LAMBDA result :
        IF expr.op = "ASSIGN" /\ expr.left.kind = "Variable"
        THEN returning(emit(result, IRInstruction("STORE_VAR",
                                                  <<expr.left.name, right.result>>)),
                       right.result)
        ELSE IF expr.op = "ASSIGN" /\ expr.left.kind = "ArrayAccess"
        THEN Then(ir_visit_expression(result, expr.left.array), LAMBDA array :
             Then(ir_visit_expression(array, expr.left.index), LAMBDA index :
             returning(emit(index, IRInstruction("ARRAY_SET",
                                <<array.result, index.result, right.result>>)),
                       right.result)))
        ELSE returning(emit(result, IRInstruction("BINARY_OP",
                                <<result.result, left.result, binary_operator(expr.op),
                                  right.result>>)),
                       result.result))))

ir_visitUnaryExpression(G, expr) ==
    Then(ir_visit_expression(G, expr.right), LAMBDA operand :
    Bind(generateTemp(operand), LAMBDA result :
    returning(emit(result, IRInstruction("UNARY_OP",
                      <<result.result, unary_operator(expr.op), operand.result>>)),
              result.result)))

ir_visitLiteralExpression(G, expr) ==
    Bind(generateTemp(G), LAMBDA result :
    returning(emit(result, IRInstruction("LOAD_CONST", <<result.result, literal_value(expr)>>)),
              result.result))

ir_visitVariableExpression(G, expr) ==
    Bind(generateTemp(G), LAMBDA result :
    returning(emit(result, IRInstruction("LOAD_VAR", <<result.result, expr.name>>)),
              result.result))

ir_visitCallExpression(G, expr) ==
    Then(ir_visit_values(G, expr.arguments, <<>>), LAMBDA argValues :
    Bind(generateTemp(argValues), LAMBDA result :
        IF expr.callee \in {"int", "float", "str", "bool"} /\ Len(argValues.result) = 1
        THEN returning(emit(result, IRInstruction("CONVERT",
                               <<result.result, expr.callee, argValues.result[1]>>)),
                       result.result)
        ELSE returning(emit(result, IRInstruction("CALL",
                               <<result.result, expr.callee, join(argValues.result)>>)),
                       result.result)))

ir_visitArrayExpression(G, expr) ==
    Then(ir_visit_values(G, expr.elements, <<>>), LAMBDA elementValues :
    Bind(generateTemp(elementValues), LAMBDA result :
    returning(emit(result, IRInstruction("ARRAY_NEW",
                      <<result.result, join(elementValues.result)>>)),
              result.result)))

ir_visitArrayAccessExpression(G, expr) ==
    Then(ir_visit_expression(G, expr.array), LAMBDA array :
    Then(ir_visit_expression(array, expr.index), LAMBDA index :
    Bind(generateTemp(index), LAMBDA result :
    returning(emit(result, IRInstruction("ARRAY_GET",
                      <<result.result, array.result, index.result>>)),
              result.result))))

ir_visitMemberAccessExpression(G, expr) ==
    Then(ir_visit_expression(G, expr.object), LAMBDA object :
    Bind(generateTemp(object), LAMBDA result :
    returning(emit(result, IRInstruction("MEMBER_GET",
                      <<result.result, object.result, expr.member>>)),
              result.result)))

\* IRGenerator::visit(const StatementPtr&)
ir_visit_statement(G, stmt) ==
    CASE stmt.kind = "VarDeclaration" -> ir_visitVarDeclaration(G, stmt)
      [] stmt.kind = "FunctionDeclaration" -> ir_visitFunctionDeclaration(G, stmt)
      [] stmt.kind = "ExpressionStatement" -> ir_visitExpressionStatement(G, stmt)
      [] stmt.kind = "If" -> ir_visitIfStatement(G, stmt)
      [] stmt.kind = "While" -> ir_visitWhileStatement(G, stmt)
      [] stmt.kind = "Return" -> ir_visitReturnStatement(G, stmt)
      [] stmt.kind = "Block" -> ir_visitBlockStatement(G, stmt)
      [] stmt.kind = "Print" -> ir_visitPrintStatement(G, stmt)
      [] stmt.kind = "Input" -> ir_visitInputStatement(G, stmt)
      [] stmt.kind = "LoopIn" -> ir_visitLoopInStatement(G, stmt)
      [] stmt.kind = "LoopTimes" -> ir_visitLoopTimesStatement(G, stmt)
      [] OTHER -> G

\* IRGenerator::visit(const ExpressionPtr&)
ir_visit_expression(G, expr) ==
    CASE expr.kind = "Binary" -> ir_visitBinaryExpression(G, expr)
      [] expr.kind = "Unary" -> ir_visitUnaryExpression(G, expr)
      [] expr.kind = "Literal" -> ir_visitLiteralExpression(G, expr)
      [] expr.kind = "Variable" -> ir_visitVariableExpression(G, expr)
      [] expr.kind = "Call" -> ir_visitCallExpression(G, expr)
      [] expr.kind = "Array" -> ir_visitArrayExpression(G, expr)
      [] expr.kind = "ArrayAccess" -> ir_visitArrayAccessExpression(G, expr)
      [] expr.kind = "MemberAccess" -> ir_visitMemberAccessExpression(G, expr)
      [] OTHER -> generateTemp(G)

(***************************************************************************)
(* CODE GENERATOR  (src/src/code_generator.cpp).  writeFunction turns an   *)
(* IR function into a Python def whose body is `_pc = 0; while True:` over *)
(* one `if _pc == i:` block per instruction; the block of a jump assigns   *)
(* the index label_map gives its label.  A written function is kept here   *)
(* as its blocks: the instruction and, for a jump, that index.             *)
(***************************************************************************)
put(map, key, value) ==
    [k \in DOMAIN map \cup {key} |-> IF k = key THEN value ELSE map[k]]

RECURSIVE label_map_last(_, _, _)
\* A label map in which a later LABEL of the same name replaces the earlier.
label_map_last(function, i, label_map) ==
    IF i >= Len(function.instructions)
    THEN [ok |-> TRUE, label_map |-> label_map, msg |-> ""]
    ELSE LET instr == function.instructions[i + 1]
         IN  IF instr.opcode = "LABEL"
             THEN label_map_last(function, i + 1, put(label_map, instr.operands[1], i))
             ELSE label_map_last(function, i + 1, label_map)

\* the first loop of writeFunction, from instruction i (counted from 0) on
RECURSIVE label_map_loop(_, _, _)
label_map_loop(function, i, label_map) ==
    IF i >= Len(function.instructions)
    THEN [ok |-> TRUE, label_map |-> label_map, msg |-> ""]
    ELSE LET instr == function.instructions[i + 1]
         IN  IF instr.opcode = "LABEL"
             THEN IF instr.operands[1] \in DOMAIN label_map
                  THEN [ok |-> FALSE, label_map |-> label_map,
                        msg |-> "Duplicate label found in IR function '" \o function.name
                                \o "': " \o instr.operands[1]]
                  ELSE label_map_loop(function, i + 1, put(label_map, instr.operands[1], i))
             ELSE label_map_loop(function, i + 1, label_map)

JumpOpcodes == {"JUMP", "JUMP_IF_FALSE", "JUMP_IF_TRUE"}

\* the label a jump names: operand 0 of JUMP, operand 1 of the conditional ones
target_label(instr) ==
    IF instr.opcode = "JUMP" THEN instr.operands[1] ELSE instr.operands[2]

RECURSIVE write_blocks(_, _, _, _)
\* the second loop of writeFunction
write_blocks(function, label_map, i, blocks) ==
    IF i >= Len(function.instructions)
    THEN [ok |-> TRUE, blocks |-> blocks, msg |-> ""]
    ELSE LET instr == function.instructions[i + 1]
         IN  IF instr.opcode \in JumpOpcodes
             THEN IF target_label(instr) \in DOMAIN label_map
                  THEN write_blocks(function, label_map, i + 1,
                           Append(blocks, [instr |-> instr,
                                           target |-> label_map[target_label(instr)]]))
                  ELSE [ok |-> FALSE, blocks |-> blocks,
                        msg |-> "Undefined label referenced in " \o instr.opcode \o ": "
                                \o target_label(instr)]
             ELSE write_blocks(function, label_map, i + 1,
                               Append(blocks, [instr |-> instr, target |-> -1]))

writeFunction(function) ==
    Then(label_map_loop(function, 0, <<>>), LAMBDA m :
    Then(write_blocks(function, m.label_map, 0, <<>>), LAMBDA w :
    [ok |-> TRUE, msg |-> "",
     def |-> [name |-> function.name, parameters |-> function.parameters,
              blocks |-> w.blocks]]))

RECURSIVE is_numeric_loop(_, _, _)
\* the loop of handleLoadConst over value, at character i (counted from 1)
is_numeric_loop(value, i, has_dot) ==
    IF i > Len(value) THEN TRUE
    ELSE IF i = 1 /\ value[i] = "-" THEN is_numeric_loop(value, i + 1, has_dot)
    ELSE IF value[i] = "." /\ ~has_dot THEN is_numeric_loop(value, i + 1, TRUE)
    ELSE IF ~is_digit(value[i]) THEN FALSE
    ELSE is_numeric_loop(value, i + 1, has_dot)

\* CodeGenerator::handleLoadConst over operands that are character sequences:
\* the statement `result = value` it returns.
handleLoadConst(instruction) ==
    LET value == instruction.operands[2]
        is_numeric == value # <<>> /\ is_numeric_loop(value, 1, FALSE)
        written ==
            IF value # <<>> /\ Head(value) = "\"" /\ Last(value) = "\"" THEN value
            ELSE IF value # <<>> /\ Head(value) = "'" /\ Last(value) = "'" THEN value
            ELSE IF value = <<"t", "r", "u", "e">> THEN <<"T", "r", "u", "e">>
            ELSE IF value = <<"f", "a", "l", "s", "e">> THEN <<"F", "a", "l", "s", "e">>
            ELSE IF ~is_numeric THEN <<"\\", "\"">> \o value \o <<"\\", "\"">>
            ELSE value
    IN  instruction.operands[1] \o <<" ", "=", " ">> \o written

(***************************************************************************)
(* THE EMITTED SCRIPT, run by the host interpreter.  The blocks are the    *)
(* Python statements the handle* methods of code_generator.cpp return      *)
(* (lines 215-368); what a block does is what Python does with that        *)
(* statement.  Values are ints, bools, None and the script's functions;    *)
(* a statement over anything else (strings, floats, lists) is "outside".   *)
(* Ints are followed up to MaxValue; the run is cut off beyond it.         *)
(* Standard input is at end of file.                                       *)
(***************************************************************************)
MaxValue == 6
MaxTemps == 9
MaxArgs == 2
MaxDepth == 3

PyInt(n) == [t |-> "int", n |-> n]
PyBool(b) == [t |-> "bool", n |-> IF b THEN 1 ELSE 0]
PyNone == [t |-> "None", n |-> 0]
PyFunction(i) == [t |-> "function", n |-> i]

numeric(v) == v.t \in {"int", "bool"}
truthy(v) == v.t = "function" \/ (numeric(v) /\ v.n # 0)

\* An evaluation: a value, an exception, a statement outside the values
\* followed, or an int beyond MaxValue.
Value(v) == [st |-> "ok", value |-> v]
Raise(name) == [st |-> "raised", value |-> name]
Outside == [st |-> "outside", value |-> ""]
Cutoff == [st |-> "cutoff", value |-> ""]

Bounded(n) == IF n > MaxValue \/ n < -MaxValue THEN Cutoff ELSE Value(PyInt(n))

\* e, and then K of its value unless e did not give one
Eval(e, K(_)) == Bind(e, LAMBDA r : IF r.st = "ok" THEN K(r.value) ELSE r)

Numerals == { ToString(n) : n \in 0..MaxValue }
numeral_value(text) == CHOOSE n \in 0..MaxValue : ToString(n) = text
TempNames == { "t" \o ToString(i) : i \in 0..MaxTemps }

\* the def a global name is bound to when __main__ is called: the last one
\* written with that name; 0 when there is none
lookup_def(defs, name) ==
    LET is == { i \in DOMAIN defs : defs[i].name = name }
    IN  IF is = {} THEN 0 ELSE CHOOSE i \in is : \A j \in is : j <= i

\* a name in an expression: a local, else a global, else NameError
py_name(defs, env, id) ==
    IF id \in DOMAIN env THEN Value(env[id])
    ELSE IF lookup_def(defs, id) # 0 THEN Value(PyFunction(lookup_def(defs, id)))
    ELSE Raise("NameError")

\* an operand as the emitted expression has it: a numeral or a name
py_operand(defs, env, text) ==
    IF text \in Numerals THEN Value(PyInt(numeral_value(text))) ELSE py_name(defs, env, text)

\* handleLoadConst: true and false become True and False, a numeral stays
py_constant(value) ==
    IF value = "true" THEN Value(PyBool(TRUE))
    ELSE IF value = "false" THEN Value(PyBool(FALSE))
    ELSE IF value \in Numerals THEN Value(PyInt(numeral_value(value)))
    ELSE Outside

py_compare(op, a, b) ==
    CASE op = "<" -> a < b
      [] op = "<=" -> a <= b
      [] op = ">" -> a > b
      [] OTHER -> a >= b

py_equal(a, b) ==
    \/ numeric(a) /\ numeric(b) /\ a.n = b.n
    \/ ~numeric(a) /\ a.t = b.t /\ a.n = b.n

\* handleBinaryOp: left op right, with && and || written and, or
py_binary(defs, env, left, op, right) ==
    Eval(py_operand(defs, env, left), LAMBDA a :
        IF op = "&&" THEN (IF truthy(a) THEN py_operand(defs, env, right) ELSE Value(a))
        ELSE IF op = "||" THEN (IF truthy(a) THEN Value(a) ELSE py_operand(defs, env, right))
        ELSE Eval(py_operand(defs, env, right), LAMBDA b :
            CASE op \in {"==", "!="} -> Value(PyBool(py_equal(a, b) = (op = "==")))
              [] op \in {"+", "-", "*"} ->
                    IF numeric(a) /\ numeric(b)
                    THEN Bounded(CASE op = "+" -> a.n + b.n
                               [] op = "-" -> a.n - b.n
                               [] OTHER -> a.n * b.n)
                    ELSE Raise("TypeError")
              [] op \in {"<", "<=", ">", ">="} ->
                    IF numeric(a) /\ numeric(b)
                    THEN Value(PyBool(py_compare(op, a.n, b.n)))
                    ELSE Raise("TypeError")
              [] op = "/" ->
                    IF ~(numeric(a) /\ numeric(b)) THEN Raise("TypeError")
                    ELSE IF b.n = 0 THEN Raise("ZeroDivisionError")
                    ELSE Outside
              [] OTHER -> Outside))

\* handleUnaryOp: op operand, with ! written not
py_unary(defs, env, op, operand) ==
    Eval(py_operand(defs, env, operand), LAMBDA a :
        IF op = "!" THEN Value(PyBool(~truthy(a)))
        ELSE IF op = "-" THEN (IF numeric(a) THEN Bounded(0 - a.n) ELSE Raise("TypeError"))
        ELSE Outside)

\* handleConvert: type(source)
py_convert(defs, env, type, source) ==
    Eval(py_operand(defs, env, source), LAMBDA a :
        IF type = "bool" THEN Value(PyBool(truthy(a)))
        ELSE IF type = "int" THEN (IF numeric(a) THEN Bounded(a.n) ELSE Raise("TypeError"))
        ELSE Outside)

\* A script whose text is not Python: an operator the generator wrote as ?.
syntax_error(defs) ==
    \E i \in DOMAIN defs : \E k \in DOMAIN defs[i].blocks :
        LET instr == defs[i].blocks[k].instr
        IN  \/ instr.opcode = "BINARY_OP" /\ instr.operands[3] = "?"
            \/ instr.opcode = "UNARY_OP" /\ instr.operands[2] = "?"

\* The run X: its call stack (a frame is a def, its _pc, its locals and the
\* name the caller assigns the result to), what was printed, and the stacks
\* seen at backward jumps.
top(frames) == frames[Len(frames)]

\* the run ends on an exception, outside the values followed, or cut off
stop(X, r) == [X EXCEPT !.status = r.st, !.msg = r.value]

\* _pc = target.  The loop goes round for ever when a backward jump finds
\* the stack as it was at an earlier backward jump.
jump(X, target) ==
    LET Y == [X EXCEPT !.frames[Len(X.frames)].pc = target]
    IN  IF target > top(X.frames).pc THEN Y
        ELSE IF Y.frames \in X.seen THEN [Y EXCEPT !.status = "diverged"]
        ELSE [Y EXCEPT !.seen = @ \cup {Y.frames}]

\* The locals an expression of the frame sees: the program's variables and
\* temporaries, and the loop's own _pc (writeFunction, line 100).
frame_env(frame) == put(frame.env, "_pc", PyInt(frame.pc))

\* name = value; _pc += 1.  A name _pc is the program counter itself.
assign(X, name, r) ==
    IF r.st # "ok" THEN stop(X, r)
    ELSE IF name # "_pc"
    THEN [X EXCEPT !.frames[Len(X.frames)].env = put(@, name, r.value),
                   !.frames[Len(X.frames)].pc = @ + 1]
    ELSE IF numeric(r.value) THEN jump(X, r.value.n + 1)
    ELSE stop(X, Raise("TypeError"))

\* return value / break: the def returns to the call statement of its caller,
\* and __main__ to the end of the script
return(X, value) ==
    IF Len(X.frames) = 1 THEN [X EXCEPT !.status = "done", !.frames = <<>>]
    ELSE LET caller == X.frames[Len(X.frames) - 1]
         IN  [X EXCEPT !.frames =
                Append(SubSeq(X.frames, 1, Len(X.frames) - 2),
                       [caller EXCEPT !.env = put(@, top(X.frames).dest, value),
                                      !.pc = @ + 1])]

RECURSIVE py_arguments(_, _, _, _)
\* the argument expressions, left to right
py_arguments(defs, env, args, values) ==
    IF args = <<>> THEN Value(values)
    ELSE Eval(py_operand(defs, env, Head(args)), LAMBDA v :
             py_arguments(defs, env, Tail(args), Append(values, v)))

\* handleCall: result = function(args)
py_call(X, defs, result, function, args) ==
    LET env == frame_env(top(X.frames))
        lists == { a \in SeqsUpTo(TempNames, MaxArgs) : join(a) = args }
        called ==
            IF lists = {} THEN Outside
            ELSE Eval(py_name(defs, env, function), LAMBDA f :
                 Eval(py_arguments(defs, env, CHOOSE a \in lists : TRUE, <<>>), LAMBDA vs :
                     IF f.t # "function" \/ Len(vs) # Len(defs[f.n].parameters)
                     THEN Raise("TypeError")
                     ELSE IF Len(X.frames) >= MaxDepth THEN Cutoff
                     ELSE Value([def |-> f.n, pc |-> 0, dest |-> result,
                                 env |-> [q \in Range(defs[f.n].parameters) |->
                                            LET k == CHOOSE k \in DOMAIN vs :
                                                       defs[f.n].parameters[k] = q
                                            IN  vs[k]]])))
    IN  IF called.st = "ok" THEN [X EXCEPT !.frames = Append(@, called.value)]
        ELSE stop(X, called)

\* One turn of `while True:` in the def on top of the stack: the block of
\* _pc, or the final else when _pc is past the last block.
dispatch(X, defs) ==
    LET frame == top(X.frames)
        env == frame_env(frame)
        blocks == defs[frame.def].blocks
    IN  IF frame.pc \notin 0..(Len(blocks) - 1) THEN return(X, PyNone)
        ELSE LET instr == blocks[frame.pc + 1].instr
                 target == blocks[frame.pc + 1].target
                 o == instr.operands
             IN  CASE instr.opcode \in {"LABEL", "NOP"} ->
                        [X EXCEPT !.frames[Len(X.frames)].pc = @ + 1]
                   [] instr.opcode = "JUMP" -> jump(X, target)
                   [] instr.opcode \in {"JUMP_IF_FALSE", "JUMP_IF_TRUE"} ->
                        Bind(py_name(defs, env, o[1]), LAMBDA c :
                            IF c.st # "ok" THEN stop(X, c)
                            ELSE IF truthy(c.value) = (instr.opcode = "JUMP_IF_TRUE")
                            THEN jump(X, target)
                            ELSE [X EXCEPT !.frames[Len(X.frames)].pc = @ + 1])
                   [] instr.opcode = "RETURN" ->
                        IF o = <<>> THEN return(X, PyNone)
                        ELSE Bind(py_name(defs, env, o[1]), LAMBDA v :
                                 IF v.st = "ok" THEN return(X, v.value) ELSE stop(X, v))
                   [] instr.opcode = "LOAD_CONST" -> assign(X, o[1], py_constant(o[2]))
                   [] instr.opcode \in {"LOAD_VAR", "STORE_VAR"} ->
                        assign(X, o[1], py_operand(defs, env, o[2]))
                   [] instr.opcode = "BINARY_OP" ->
                        assign(X, o[1], py_binary(defs, env, o[2], o[3], o[4]))
                   [] instr.opcode = "UNARY_OP" ->
                        assign(X, o[1], py_unary(defs, env, o[2], o[3]))
                   [] instr.opcode = "CONVERT" ->
                        assign(X, o[1], py_convert(defs, env, o[2], o[3]))
                   [] instr.opcode = "CALL" -> py_call(X, defs, o[1], o[2], o[3])
                   [] instr.opcode = "PRINT" ->
                        Bind(py_name(defs, env, o[1]), LAMBDA v :
                            IF v.st # "ok" THEN stop(X, v)
                            ELSE [X EXCEPT !.out = Append(@, v.value),
                                           !.frames[Len(X.frames)].pc = @ + 1])
                   [] instr.opcode = "INPUT" -> stop(X, Raise("EOFError"))
                   [] OTHER -> stop(X, Outside)

(***************************************************************************)
(* Specification of IR generation, code generation and the run of the      *)
(* emitted script.  The input is a program the semantic analyzer accepts,  *)
(* over the names x, t1 and t2, the function f, small int literals and     *)
(* true: at most MaxIRProgram top-level statements, simple ones and then a *)
(* simple one or a loop, if, while or function declaration around a short  *)
(* body.                                                                   *)
(***************************************************************************)
MaxIRProgram == 2

IRNames == {"x", "t1", "t2"}
Lit(n) == Literal("int", ToString(n))
Assign(v, e) == ExpressionStatement(Binary(Variable(v), "ASSIGN", e))
Print5 == PrintStatement(Lit(5))
FuncF == FunctionDeclaration("f", <<>>, BlockStatement(<<ReturnStatement(Null)>>))

IRAssignments ==
    { Assign(v, Lit(0)) : v \in IRNames }
        \cup { Assign(v, Binary(Variable(v), "PLUS", Lit(1))) : v \in IRNames }

IRSimple ==
    { VarDeclaration(v, Lit(0)) : v \in IRNames } \cup IRAssignments \cup {Print5}
        \cup { PrintStatement(Variable(v)) : v \in IRNames }

IRBodies ==
    LET inner == IRAssignments \cup {FuncF, LoopTimesStatement(Lit(2), BlockStatement(<<Print5>>))}
    IN  {<<Print5>>} \cup { <<s>> : s \in inner } \cup { <<Print5, s>> : s \in inner }

IRCompound ==
    { LoopTimesStatement(Lit(n), BlockStatement(b)) : n \in {0, 3}, b \in IRBodies }
        \cup { IfStatement(LitTrue, BlockStatement(b), Null) : b \in IRBodies }
        \cup { IfStatement(Binary(Variable("x"), "LESS", Lit(2)), BlockStatement(b),
                           BlockStatement(<<Print5>>)) : b \in IRBodies }
        \cup { WhileStatement(Binary(Variable("x"), "LESS", Lit(2)), BlockStatement(b))
               : b \in IRBodies }
        \cup { FuncF }

\* Programs with three function declarations, where the growth of the vector
\* decides whether the third push_back reallocates.
IRExtraPrograms ==
    { <<FuncF,
        FunctionDeclaration("g", <<>>, BlockStatement(<<
            LoopTimesStatement(Lit(3), BlockStatement(<<Print5, FuncF>>))>>))>>,
      <<FuncF, FuncF, FuncF>>,
      <<FuncF, LoopTimesStatement(Lit(3), BlockStatement(<<Print5>>))>>,
      <<VarDeclaration("x", Lit(0)), Print5,
        WhileStatement(LitTrue, BlockStatement(<<Print5>>))>>,
      <<FuncF, FunctionDeclaration("g", <<>>, BlockStatement(<<Print5, FuncF, Print5>>))>>,
      <<Print5, FuncF, Print5>>,
      <<VarDeclaration("x", Array(<<Lit(0)>>)),
        ExpressionStatement(Binary(ArrayAccess(Variable("x"), Lit(0)), "ASSIGN", Lit(5)))>>,
      <<VarDeclaration("x", Lit(0)),
        FunctionDeclaration("f", <<>>, BlockStatement(<<PrintStatement(Variable("x"))>>))>>,
      <<VarDeclaration("_pc", Lit(0)), Print5>>,
      <<VarDeclaration("_pc", Lit(5)), Print5>> }

accepted(p) ==
    visit_statements([scopes |-> <<<<>>>>, in_function |-> FALSE, ok |-> TRUE, msg |-> ""],
                     p).ok

IRPrograms(maxProgram) ==
    { p \in { prelude \o <<s>> : prelude \in SeqsUpTo(IRSimple, maxProgram - 1),
                                 s \in IRSimple \cup IRCompound }
             \cup IRExtraPrograms : accepted(p) }

InitIR ==
    /\ \E build \in Builds : irgen = Object(NewIRGenerator(build))
    /\ \E p \in IRPrograms(MaxIRProgram) :
          irOut = [program |-> p, next |-> 1, status |-> "running", functions |-> <<>>]
    /\ script = [functions |-> <<>>, next |-> 1, status |-> "idle", msg |-> "",
                 wrapper |-> "absent", outFile |-> "closed", text |-> <<>>]
    /\ exec = [status |-> "idle", frames |-> <<>>, out |-> <<>>, seen |-> {}, msg |-> ""]
    /\ IdleLex
    /\ IdleParse
    /\ IdleSem

\* IRGenerator::visit(Program), one iteration of its loop.
GenerateStatement ==
    /\ irOut.status = "running"
    /\ irOut.next <= Len(irOut.program)
    /\ LET G == ir_visit_statement(
                    [f \in IRGeneratorFields \cup {"result", "ok"} |->
                        IF f = "result" THEN "" ELSE IF f = "ok" THEN TRUE ELSE irgen[f]],
                    irOut.program[irOut.next])
       IN  /\ irgen' = Object(G)
           /\ irOut' = IF G.ok THEN [irOut EXCEPT !.next = @ + 1]
                       ELSE [irOut EXCEPT !.status = "aborted"]
    /\ UNCHANGED <<lexVars, parseVars, semVars, script, exec>>

\* generate after visit(program) has returned: return functions;
GenerateReturn ==
    /\ irOut.status = "running"
    /\ irOut.next > Len(irOut.program)
    /\ irOut' = [irOut EXCEPT !.status = "returned",
                              !.functions = irgen.heap[irgen.functions.buffer]]
    /\ UNCHANGED <<lexVars, parseVars, semVars, irgen, script, exec>>

\* CodeGenerator::generate, one iteration of its loop over the functions,
\* the first one after outFile.open (the output path is taken to be
\* writable); a std::runtime_error of writeFunction leaves generate.
WriteFunction ==
    /\ irOut.status = "returned"
    /\ script.status \in {"idle", "writing"}
    /\ script.next <= Len(irOut.functions)
    /\ LET w == writeFunction(irOut.functions[script.next])
       IN  script' = IF w.ok
                     THEN [script EXCEPT !.functions = Append(@, w.def), !.next = @ + 1,
                                         !.status = "writing", !.outFile = "open"]
                     ELSE [script EXCEPT !.status = "error", !.msg = w.msg,
                                         !.outFile = "open"]
    /\ UNCHANGED <<lexVars, parseVars, semVars, irgen, irOut, exec>>

\* CodeGenerator::generate after the loop: the call of __main__ is written
\* and the file is closed.
WriteMain ==
    /\ script.status = "writing"
    /\ script.next > Len(irOut.functions)
    /\ script' = [script EXCEPT !.status = "written", !.outFile = "closed"]
    /\ UNCHANGED <<lexVars, parseVars, semVars, irgen, irOut, exec>>

\* The exception of generate unwinds the try block of Compiler::compile: the
\* local code_gen is destroyed, and the destructor of its member outFile
\* closes the file.
Unwind ==
    /\ script.status = "error"
    /\ script.outFile = "open"
    /\ script' = [script EXCEPT !.outFile = "closed"]
    /\ UNCHANGED <<lexVars, parseVars, semVars, irgen, irOut, exec>>

\* The interpreter loads the script and calls __main__().
RunScript ==
    /\ script.status = "written"
    /\ exec.status = "idle"
    /\ exec' = IF syntax_error(script.functions)
               THEN [exec EXCEPT !.status = "syntax_error"]
               ELSE [exec EXCEPT !.status = "running",
                                 !.frames = <<[def |-> lookup_def(script.functions, "__main__"),
                                               pc |-> 0, dest |-> "", env |-> <<>>]>>]
    /\ UNCHANGED <<lexVars, parseVars, semVars, irgen, irOut, script>>

\* One turn of the dispatch loop.
DispatchStep ==
    /\ exec.status = "running"
    /\ exec' = dispatch(exec, script.functions)
    /\ UNCHANGED <<lexVars, parseVars, semVars, irgen, irOut, script>>

NextIR ==
    GenerateStatement \/ GenerateReturn \/ WriteFunction \/ WriteMain \/ Unwind \/ RunScript
        \/ DispatchStep

SpecIR == InitIR /\ [][NextIR]_vars

(***************************************************************************)
(* Properties of the generated IR and of the run of the script.            *)
(***************************************************************************)
\* C2: in every IR function that generate returns, every JUMP, JUMP_IF_FALSE
\* and JUMP_IF_TRUE names a label that a LABEL instruction of the same
\* function carries, and no two LABEL instructions of a function carry the
\* same name, also when function declarations are nested in if, while or
\* loop bodies or in other functions.
C2_JumpTargetsResolve ==
    irOut.status = "returned" =>
        \A i \in DOMAIN irOut.functions :
            LET ins == irOut.functions[i].instructions
                labels == { k \in DOMAIN ins : ins[k].opcode = "LABEL" }
            IN  /\ \A k \in DOMAIN ins :
                      ins[k].opcode \in JumpOpcodes =>
                          \E l \in labels : ins[l].operands[1] = target_label(ins[k])
                /\ \A k, l \in labels : ins[k].operands[1] = ins[l].operands[1] => k = l

\* The opcodes whose first operand is the temporary that generateTemp gave
\* for this instruction.
TempDefining ==
    {"LOAD_CONST", "LOAD_VAR", "BINARY_OP", "UNARY_OP", "CALL", "CONVERT",
     "ARRAY_NEW", "ARRAY_GET", "MEMBER_GET"}

\* C21: within one IR function every temporary is fresh: in every function
\* that generate returns, no two instructions that take a new temporary for
\* their result name the same one, also when a function declaration stands
\* between or inside the other statements of that function.
C21_TemporariesFresh ==
    irOut.status = "returned" =>
        \A i \in DOMAIN irOut.functions :
            LET ins == irOut.functions[i].instructions
            IN  \A k, l \in DOMAIN ins :
                    (/\ ins[k].opcode \in TempDefining
                     /\ ins[l].opcode \in TempDefining
                     /\ ins[k].operands[1] = ins[l].operands[1]) => k = l

\* C22: after a function declaration has been lowered the top-level function
\* is the current function again: between two top-level statements the
\* current-function reference designates the first element of the vector's
\* live buffer, and a top-level print that ends the program is the last
\* instruction of the __main__ that generate returns.
C22_MainIsCurrent ==
    /\ irOut.status \in {"running", "returned"} =>
           irgen.currentFunction = [buffer |-> irgen.functions.buffer, index |-> 1]
    /\ (/\ irOut.status = "returned"
        /\ irOut.program # <<>>
        /\ Last(irOut.program).kind = "Print") =>
           /\ irOut.functions[1].name = "__main__"
           /\ irOut.functions[1].instructions # <<>>
           /\ Last(irOut.functions[1].instructions).opcode = "PRINT"

\* How many instructions of the sequence carry the opcode
CountOpcode(ins, opcode) == Cardinality({ k \in DOMAIN ins : ins[k].opcode = opcode })

\* `var v = n` or `v = n` with a literal n
StoresLiteral(s) ==
    \/ s.kind = "VarDeclaration" /\ s.initializer.kind = "Literal"
    \/ /\ s.kind = "ExpressionStatement"
       /\ s.expression.kind = "Binary"
       /\ s.expression.op = "ASSIGN"
       /\ s.expression.left.kind = "Variable"
       /\ s.expression.right.kind = "Literal"

\* C23: lowering an assignment to a variable emits the instructions of the
\* right-hand side and then one STORE_VAR, and no LOAD_VAR of the target: the
\* __main__ of a program of declarations `var v = n` and assignments `v = n`
\* with literals n is one LOAD_CONST and one STORE_VAR per statement.
C23_AssignmentStoresOnly ==
    (/\ irOut.status = "returned"
     /\ \A k \in DOMAIN irOut.program : StoresLiteral(irOut.program[k])) =>
        LET ins == irOut.functions[1].instructions
        IN  /\ CountOpcode(ins, "LOAD_VAR") = 0
            /\ Len(ins) = 2 * Len(irOut.program)
            /\ \A k \in DOMAIN irOut.program :
                   /\ ins[2 * k - 1].opcode = "LOAD_CONST"
                   /\ ins[2 * k].opcode = "STORE_VAR"
                   /\ ins[2 * k].operands[2] = ins[2 * k - 1].operands[1]

\* `x[0] = 5` after `var x = [0]`
ElementAssignment ==
    <<VarDeclaration("x", Array(<<Lit(0)>>)),
      ExpressionStatement(Binary(ArrayAccess(Variable("x"), Lit(0)), "ASSIGN", Lit(5)))>>

\* C24: lowering an assignment to an array element lowers the array, the
\* index and the right-hand side once each, in that order, and then emits one
\* ARRAY_SET, with no ARRAY_GET of the target: for `x[0] = 5` after
\* `var x = [0]` the instructions that follow the declaration are LOAD_VAR x,
\* LOAD_CONST 0, LOAD_CONST 5 and ARRAY_SET over their three results.
C24_ElementAssignmentLowersOnce ==
    (irOut.status = "returned" /\ irOut.program = ElementAssignment) =>
        LET ins == irOut.functions[1].instructions
        IN  /\ CountOpcode(ins, "ARRAY_GET") = 0
            /\ CountOpcode(ins, "LOAD_VAR") = 1
            /\ Len(ins) = 7
            /\ ins[4].opcode = "LOAD_VAR" /\ ins[4].operands[2] = "x"
            /\ ins[5].opcode = "LOAD_CONST" /\ ins[5].operands[2] = "0"
            /\ ins[6].opcode = "LOAD_CONST" /\ ins[6].operands[2] = "5"
            /\ ins[7] = IRInstruction("ARRAY_SET", <<ins[4].operands[1], ins[5].operands[1],
                                                     ins[6].operands[1]>>)

(***************************************************************************)
(* Specification of CodeGenerator::generate over IR function lists of any  *)
(* shape: __main__ alone or followed by a function f, their instructions   *)
(* drawn from LABEL and the three jumps over the labels L0 and L1, a       *)
(* LOAD_CONST and RETURN.                                                  *)
(***************************************************************************)
MaxEmit == 3

EmitLabels == {"L0", "L1"}

EmitInstructions ==
    { IRInstruction("LABEL", <<l>>) : l \in EmitLabels }
        \cup { IRInstruction("JUMP", <<l>>) : l \in EmitLabels }
        \cup { IRInstruction(op, <<"t0", l>>) : op \in {"JUMP_IF_FALSE", "JUMP_IF_TRUE"},
                                                 l \in EmitLabels }
        \cup { IRInstruction("LOAD_CONST", <<"t0", "true">>), IRInstruction("RETURN", <<>>) }

EmitFunction(name, instructions) ==
    [IRFunction(name, <<>>) EXCEPT !.instructions = instructions]

EmitInputs(maxEmit) ==
    { <<EmitFunction("__main__", m)>> : m \in SeqsUpTo(EmitInstructions, maxEmit) }
        \cup { <<EmitFunction("__main__", m), EmitFunction("f", f)>> :
                   m \in SeqsUpTo(EmitInstructions, maxEmit - 1),
                   f \in SeqsUpTo(EmitInstructions, maxEmit - 2) }

InitEmit ==
    /\ irgen = Object(NewIRGenerator([growth |-> "double", stale |-> "lost"]))
    /\ \E fs \in EmitInputs(MaxEmit) :
          irOut = [program |-> <<>>, next |-> 1, status |-> "returned", functions |-> fs]
    /\ script = [functions |-> <<>>, next |-> 1, status |-> "idle", msg |-> "",
                 wrapper |-> "absent", outFile |-> "closed", text |-> <<>>]
    /\ exec = [status |-> "idle", frames |-> <<>>, out |-> <<>>, seen |-> {}, msg |-> ""]
    /\ IdleLex
    /\ IdleParse
    /\ IdleSem

NextEmit == WriteFunction \/ WriteMain \/ Unwind

SpecEmit == InitEmit /\ [][NextEmit]_vars

\* the labels of the function are pairwise distinct and every jump names one
LabelsResolve(function) ==
    LET ins == function.instructions
        labels == { k \in DOMAIN ins : ins[k].opcode = "LABEL" }
    IN  /\ \A k, l \in labels : ins[k].operands[1] = ins[l].operands[1] => k = l
        /\ \A k \in DOMAIN ins :
               ins[k].opcode \in JumpOpcodes =>
                   \E l \in labels : ins[l].operands[1] = target_label(ins[k])

\* C26: emitting an IR function aborts with an error if two LABEL
\* instructions in it carry the same name or if a jump names a label that no
\* LABEL of the same function carries, and a jump is never written with a
\* guessed index: every function written has distinct labels that resolve
\* all its jumps, each jump block holds the index of the LABEL of its own
\* function, and generate ends without an error only when that is so for
\* every function.
C26_LabelErrorsAbort ==
    /\ \A i \in DOMAIN script.functions :
           /\ LabelsResolve(irOut.functions[i])
           /\ \A k \in DOMAIN script.functions[i].blocks :
                  LET b == script.functions[i].blocks[k]
                      ins == irOut.functions[i].instructions
                  IN  /\ b.instr = ins[k]
                      /\ b.instr.opcode \in JumpOpcodes =>
                             /\ b.target \in 0..(Len(ins) - 1)
                             /\ ins[b.target + 1] =
                                    IRInstruction("LABEL", <<target_label(b.instr)>>)
    /\ script.status = "written" =>
           /\ Len(script.functions) = Len(irOut.functions)
           /\ \A i \in DOMAIN irOut.functions : LabelsResolve(irOut.functions[i])
    /\ (/\ script.status \in {"idle", "writing"}
        /\ script.next <= Len(irOut.functions)
        /\ ~LabelsResolve(irOut.functions[script.next])) =>
           ~writeFunction(irOut.functions[script.next]).ok

\* A jump of __main__ names a label that only f defines: the emission has
\* aborted.
C26_Witness ==
    /\ script.status = "error"
    /\ Len(irOut.functions) = 2
    /\ script.next = 1
    /\ irOut.functions[1].instructions = <<IRInstruction("JUMP", <<"L0">>)>>
    /\ irOut.functions[2].instructions = <<IRInstruction("LABEL", <<"L0">>)>>

\* Two LABEL instructions of one function carry the same name: the emission
\* has aborted.
C26_DuplicateAborted ==
    /\ script.status = "error"
    /\ irOut.functions[script.next].instructions =
           <<IRInstruction("LABEL", <<"L0">>), IRInstruction("LABEL", <<"L0">>)>>

\* C27: the output file opened by generate is released when generate is
\* left, by an exception as well as by a normal return.
C27_HandleReleased ==
    script.status \in {"written", "error"} => script.outFile = "closed"

(***************************************************************************)
(* Specification of the arm of a LOAD_CONST: __main__ is the single        *)
(* instruction LOAD_CONST t0, v for an operand v of up to MaxConst          *)
(* characters among minus, dot, a digit, a letter and the two quotes, or    *)
(* one of the words true and false.                                         *)
(***************************************************************************)
MaxConst == 3

ConstChars == {"-", ".", "1", "a", "\"", "'"}

ConstOperands(maxConst) ==
    SeqsUpTo(ConstChars, maxConst) \cup {<<"t", "r", "u", "e">>, <<"f", "a", "l", "s", "e">>}

InitConst ==
    /\ irgen = Object(NewIRGenerator([growth |-> "double", stale |-> "lost"]))
    /\ \E v \in ConstOperands(MaxConst) :
          irOut = [program |-> <<>>, next |-> 1, status |-> "returned",
                   functions |-> <<EmitFunction("__main__",
                                       <<IRInstruction("LOAD_CONST", <<<<"t", "0">>, v>>)>>)>>]
    /\ script = [functions |-> <<>>, next |-> 1, status |-> "idle", msg |-> "",
                 wrapper |-> "absent", outFile |-> "closed", text |-> <<>>]
    /\ exec = [status |-> "idle", frames |-> <<>>, out |-> <<>>, seen |-> {}, msg |-> ""]
    /\ IdleLex
    /\ IdleParse
    /\ IdleSem

\* writeFunction at `case IROpCode::LOAD_CONST` for instruction 0 of __main__.
WriteLoadConst ==
    /\ irOut.status = "returned"
    /\ script.status = "idle"
    /\ script' = [script EXCEPT !.status = "writing", !.outFile = "open",
                                !.text = handleLoadConst(irOut.functions[1].instructions[1])]
    /\ UNCHANGED <<lexVars, parseVars, semVars, irgen, irOut, exec>>

NextConst == WriteLoadConst

SpecConst == InitConst /\ [][NextConst]_vars

QuoteChars == {"\"", "'"}

\* v is enclosed in matching quotes
Enclosed(v) == Len(v) >= 2 /\ Head(v) \in QuoteChars /\ Last(v) = Head(v)

\* v is an optional minus, one or more digits, and optionally a dot followed
\* by one or more digits
NumberPattern(v) ==
    LET body == IF v # <<>> /\ Head(v) = "-" THEN Tail(v) ELSE v
        dots == { i \in DOMAIN body : body[i] = "." }
    IN  /\ body # <<>>
        /\ \A i \in DOMAIN body : body[i] \in Digits \cup {"."}
        /\ \/ dots = {}
           \/ \E d \in dots : dots = {d} /\ 1 < d /\ d < Len(body)

\* C28: the right-hand side emitted for LOAD_CONST t, v is True for true,
\* False for false, v itself when v is enclosed in matching quotes or is a
\* number (optional minus, digits, optionally a dot and digits), and
\* otherwise v in one pair of quote characters with no backslash added.  (A v
\* that is a single quote character is left aside.)
C28_ConstantText ==
    (script.text # <<>> /\ irOut.functions[1].instructions[1].operands[2] \notin
                               { <<q>> : q \in QuoteChars }) =>
        LET v == irOut.functions[1].instructions[1].operands[2]
            rhs == SubSeq(script.text, 6, Len(script.text))
        IN  /\ SubSeq(script.text, 1, 5) = <<"t", "0", " ", "=", " ">>
            /\ rhs = IF v = <<"t", "r", "u", "e">> THEN <<"T", "r", "u", "e">>
                     ELSE IF v = <<"f", "a", "l", "s", "e">> THEN <<"F", "a", "l", "s", "e">>
                     ELSE IF Enclosed(v) \/ NumberPattern(v) THEN v
                     ELSE <<"\"">> \o v \o <<"\"">>

\* the index, counted from 0, of the LABEL instruction that carries the name
label_index(blocks, name) ==
    (CHOOSE i \in DOMAIN blocks :
        blocks[i].instr.opcode = "LABEL" /\ blocks[i].instr.operands[1] = name) - 1

\* C25: the emitted dispatch loop refines the IR's abstract machine: _pc is
\* in 0..n at every turn; the arm of a JUMP leaves _pc at the index of the
\* target LABEL, the arm of a conditional jump at that index or at k + 1, the
\* arm of a CALL at k + 1 once the callee has returned, and every other arm
\* but RETURN at k + 1; the loop is left exactly when a RETURN arm runs or
\* _pc = n.
C25_DispatchRefines ==
    [][DispatchStep =>
        LET frame == top(exec.frames)
            blocks == script.functions[frame.def].blocks
            n == Len(blocks)
            k == frame.pc
            depth == Len(exec.frames)
            left == Len(exec'.frames) < depth
        IN  /\ k \in 0..n
            /\ left <=> (k = n \/ (k \in 0..(n - 1) /\ blocks[k + 1].instr.opcode = "RETURN"))
            /\ (left /\ Len(exec'.frames) >= 1) =>
                    top(exec'.frames).pc = exec.frames[depth - 1].pc + 1
            /\ (Len(exec'.frames) = depth /\ exec'.status \in {"running", "diverged"}) =>
                    LET instr == blocks[k + 1].instr
                        pc == top(exec'.frames).pc
                    IN  CASE instr.opcode = "JUMP" ->
                                pc = label_index(blocks, instr.operands[1])
                          [] instr.opcode \in {"JUMP_IF_FALSE", "JUMP_IF_TRUE"} ->
                                pc \in {label_index(blocks, instr.operands[2]), k + 1}
                          [] OTHER -> pc = k + 1]_vars

\* the names the emitted def of the IR function can bind as its locals: its
\* parameters and the targets of its STORE_VAR and INPUT instructions
FunctionLocals(function) ==
    Range(function.parameters)
        \cup { function.instructions[j].operands[1] :
                   j \in { j \in DOMAIN function.instructions :
                              function.instructions[j].opcode \in {"STORE_VAR", "INPUT"} } }

\* C29: every LOAD_VAR x emitted into an IR function names a variable that
\* is bound in that same function when the instruction runs: x is a parameter
\* of the function or the target of a STORE_VAR or INPUT of it, also for a
\* top-level variable read inside a function body, and when the arm of a
\* LOAD_VAR runs in the script the name is among the locals of the running
\* def.
C29_LoadedVariablesBound ==
    /\ irOut.status = "returned" =>
           \A i \in DOMAIN irOut.functions :
               \A k \in DOMAIN irOut.functions[i].instructions :
                   LET instr == irOut.functions[i].instructions[k]
                   IN  instr.opcode = "LOAD_VAR" =>
                           instr.operands[2] \in FunctionLocals(irOut.functions[i])
    /\ (exec.status = "running" /\ exec.frames # <<>>) =>
           LET frame == top(exec.frames)
               blocks == script.functions[frame.def].blocks
           IN  (/\ frame.pc \in 0..(Len(blocks) - 1)
                /\ blocks[frame.pc + 1].instr.opcode = "LOAD_VAR") =>
                   blocks[frame.pc + 1].instr.operands[2] \in DOMAIN frame.env

\* The compilation and the run of the script have come to an end that tells:
\* the code generator threw, or the script finished, raised or loops for ever.
RunOver ==
    \/ script.status = "error"
    \/ exec.status \in {"done", "raised", "diverged", "syntax_error"}

RECURSIVE C7_Counted(_), C7_Prints(_), C7_HasLoop(_)
\* Statements whose number of prints the source fixes: declarations,
\* assignments, prints, `if true:` and `loop N times:` with a literal N.
C7_Counted(ss) ==
    \A i \in DOMAIN ss :
        \/ ss[i].kind \in {"VarDeclaration", "ExpressionStatement", "Print",
                           "FunctionDeclaration"}
        \/ /\ ss[i].kind = "LoopTimes"
           /\ ss[i].count.kind = "Literal"
           /\ ss[i].count.type = "int"
           /\ C7_Counted(ss[i].body.statements)
        \/ /\ ss[i].kind = "If"
           /\ ss[i].condition = LitTrue
           /\ C7_Counted(ss[i].then_branch.statements)

\* How often such statements print when a loop of N times runs its body N times.
C7_Prints(ss) ==
    IF ss = <<>> THEN 0
    ELSE C7_Prints(Tail(ss))
         + (CASE Head(ss).kind = "Print" -> 1
              [] Head(ss).kind = "LoopTimes" ->
                    numeral_value(Head(ss).count.value) * C7_Prints(Head(ss).body.statements)
              [] Head(ss).kind = "If" -> C7_Prints(Head(ss).then_branch.statements)
              [] OTHER -> 0)

C7_HasLoop(ss) ==
    \E i \in DOMAIN ss :
        \/ ss[i].kind = "LoopTimes"
        \/ ss[i].kind = "If" /\ C7_HasLoop(ss[i].then_branch.statements)

\* C7: a `loop N times` whose body does not return runs the body exactly N
\* times and then control reaches the loop's end label, whatever the body
\* holds (a nested function declaration, nested loops, assignments): a
\* program of such loops and prints finishes having printed as often as its
\* loops say.
C7_LoopTimesRunsBodyNTimes ==
    (C7_Counted(irOut.program) /\ C7_HasLoop(irOut.program) /\ RunOver) =>
        (exec.status = "done" /\ Len(exec.out) = C7_Prints(irOut.program))

RECURSIVE C8_LoopTimesOnly(_)
\* Every loop of the statements is a `loop N times` with a literal N.
C8_LoopTimesOnly(ss) ==
    \A i \in DOMAIN ss :
        CASE ss[i].kind \in {"While", "LoopIn"} -> FALSE
          [] ss[i].kind = "LoopTimes" ->
                ss[i].count.kind = "Literal" /\ C8_LoopTimesOnly(ss[i].body.statements)
          [] ss[i].kind = "If" ->
                /\ C8_LoopTimesOnly(ss[i].then_branch.statements)
                /\ ss[i].else_branch # Null => C8_LoopTimesOnly(ss[i].else_branch.statements)
          [] ss[i].kind = "FunctionDeclaration" -> C8_LoopTimesOnly(ss[i].body.statements)
          [] OTHER -> TRUE

\* C8: the emitted script terminates if and only if the source program does;
\* in particular the script of an accepted program whose every loop is a
\* `loop N times` (which terminates, as it calls nothing) never runs a
\* dispatch loop that goes round for ever.
C8_ScriptTerminates ==
    C8_LoopTimesOnly(irOut.program) => exec.status # "diverged"

(***************************************************************************)
(* COMPILER  (src/src/compiler.cpp).  Compiler::compile runs the lexer,    *)
(* the parser, the analyzer, the IR generator and the code generator on    *)
(* one source, each on what the one before returned, and then writes the   *)
(* wrapper file; an exception of any of them leaves compile.               *)
(***************************************************************************)
CompileSources ==
    { <<>>,
      \* accepted: a declaration and a print
      <<"v", "a", "r", " ", "x", " ", "=", " ", "4", "\n", "p", "r", "i",
        "n", "t", " ", "x", "\n">>,
      \* accepted: no line feed at the end
      <<"p", "r", "i", "n", "t", " ", "4">>,
      \* accepted: an indented block
      <<"i", "f", " ", "t", "r", "u", "e", ":", "\n", " ", " ", " ", " ",
        "p", "r", "i", "n", "t", " ", "4", "\n">>,
      \* accepted: a function and its call
      <<"f", "u", "n", "c", " ", "f", "(", ")", ":", "\n", " ", " ", " ",
        " ", "r", "e", "t", "u", "r", "n", " ", "4", "\n", "p", "r", "i",
        "n", "t", " ", "f", "(", ")", "\n">>,
      \* accepted: a counted loop
      <<"l", "o", "o", "p", " ", "2", " ", "t", "i", "m", "e", "s", ":",
        "\n", " ", " ", " ", " ", "p", "r", "i", "n", "t", " ", "4",
        "\n">>,
      \* lexer: a depth between two levels
      <<" ", " ", "p", "r", "i", "n", "t", " ", "4", "\n", " ", "p", "r",
        "i", "n", "t", " ", "4", "\n">>,
      \* lexer: a single & (and an undefined x)
      <<"p", "r", "i", "n", "t", " ", "x", " ", "&", "\n">>,
      \* parser: no name after var (and an undefined x)
      <<"v", "a", "r", " ", "=", " ", "x", "\n">>,
      \* parser: no closing parenthesis
      <<"p", "r", "i", "n", "t", " ", "(", "4", "\n">>,
      \* analyzer: x is not defined
      <<"p", "r", "i", "n", "t", " ", "4", "\n", "p", "r", "i", "n", "t",
        " ", "x", "\n">>,
      \* analyzer: return outside a function
      <<"r", "e", "t", "u", "r", "n", " ", "4", "\n">>,
      \* IR generator: a function declared inside an if
      <<"i", "f", " ", "t", "r", "u", "e", ":", "\n", " ", " ", " ", " ",
        "f", "u", "n", "c", " ", "f", "(", ")", ":", "\n", " ", " ", " ",
        " ", " ", " ", " ", " ", "r", "e", "t", "u", "r", "n", "\n">> }

InitCompile ==
    /\ \E s \in CompileSources : lexer = NewLexer(s)
    /\ lexOut = [tokens |-> <<>>, status |-> "running"]
    /\ IdleParse
    /\ IdleSem
    /\ IdleIR

\* Parser parser(tokens, verbose); parser.parse() is entered.
StartParse ==
    /\ lexOut.status = "done"
    /\ parseOut.status = "idle"
    /\ parser' = [tokens |-> lexOut.tokens, current |-> 0]
    /\ parseOut' = [statements |-> <<>>, status |-> "running", msg |-> ""]
    /\ UNCHANGED <<lexVars, semVars, irVars>>

\* SemanticAnalyzer analyzer; analyzer.analyze(ast) is entered.
StartAnalyze ==
    /\ parseOut.status = "done"
    /\ semOut.status = "idle"
    /\ analyzer' = [scopes |-> <<<<>>>>, in_function |-> FALSE]
    /\ semOut' = [program |-> parseOut.statements, next |-> 1, status |-> "running",
                  msg |-> ""]
    /\ UNCHANGED <<lexVars, parseVars, irVars>>

\* A compiler that goes on to IR generation whatever analyze did.
StartGenerate_after_error ==
    /\ semOut.status \in {"ok", "error"}
    /\ irOut.status = "idle"
    /\ irOut' = [program |-> semOut.program, next |-> 1, status |-> "running",
                 functions |-> <<>>]
    /\ UNCHANGED <<lexVars, parseVars, semVars, irgen, script, exec>>

\* IRGenerator ir_gen; ir_gen.generate(ast) is entered.
StartGenerate ==
    /\ semOut.status = "ok"
    /\ irOut.status = "idle"
    /\ \E build \in Builds : irgen' = Object(NewIRGenerator(build))
    /\ irOut' = [program |-> semOut.program, next |-> 1, status |-> "running",
                 functions |-> <<>>]
    /\ UNCHANGED <<lexVars, parseVars, semVars, script, exec>>

\* The batch file is written after code_gen.generate has returned.
WriteWrapper ==
    /\ script.status = "written"
    /\ script.wrapper = "absent"
    /\ script' = [script EXCEPT !.wrapper = "written"]
    /\ UNCHANGED <<lexVars, parseVars, semVars, irgen, irOut, exec>>

NextCompile ==
    \/ Tokenize
    \/ StartParse \/ ProgramDeclaration \/ ProgramReturn
    \/ StartAnalyze \/ VisitProgramStatement \/ AnalyzeReturn
    \/ StartGenerate \/ GenerateStatement \/ GenerateReturn
    \/ WriteFunction \/ WriteMain \/ Unwind
    \/ WriteWrapper

SpecCompile == InitCompile /\ [][NextCompile]_vars

\* C14: compile runs the phases in the order lex, parse, analyze, generate
\* IR, emit: a phase has started only when the one before it has returned
\* without an error, so the first error ends the compilation, and when the
\* lexer, the parser or the analyzer has failed neither the script nor the
\* wrapper file has been created or written to.
C14_PhasesInOrder ==
    /\ parseOut.status # "idle" => lexOut.status = "done"
    /\ semOut.status # "idle" => parseOut.status = "done"
    /\ irOut.status # "idle" => semOut.status = "ok"
    /\ script.status # "idle" => irOut.status = "returned"
    /\ script.wrapper # "absent" => script.status = "written"
    /\ (\/ lexOut.status \notin {"running", "done"}
        \/ parseOut.status = "error"
        \/ semOut.status = "error")
           => (script.status = "idle" /\ script.wrapper = "absent"
               /\ script.functions = <<>>)

\* The analyzer has rejected a program that the lexer and the parser had
\* accepted.
C14_Witness ==
    /\ lexOut.status = "done"
    /\ parseOut.status = "done"
    /\ semOut.status = "error"
    /\ irOut.status = "idle"
    /\ script.status = "idle"

\* Both files of an accepted program are written.
C14_FilesWritten ==
    /\ script.status = "written"
    /\ script.wrapper = "written"
    /\ Len(script.functions) = 2

\* The code generator has failed after it opened the script: no wrapper.
C14_EmitFailed ==
    /\ script.status = "error"
    /\ script.wrapper = "absent"

====
